---- MODULE Spec2Model ----
(***************************************************************************)
(* Viua VM, "new" core: the li decomposition and expansion of              *)
(* new/src/tools/asm.cpp, the instruction word codec it uses, and the      *)
(* fetch/dispatch/preemption loop of new/src/tools/vm.cpp.                 *)
(*                                                                         *)
(* 64-bit quantities (uint64_t payloads, instruction words, wide           *)
(* immediates) are kept at full width as four 16-bit limbs, least          *)
(* significant first: <<bits 0..15, bits 16..31, bits 32..47, bits 48..63>>*)
(***************************************************************************)
EXTENDS Integers, Sequences, FiniteSets, TLC

VARIABLES
    text,         \* the instruction words between ip_begin and ip_end
    beyond,       \* words found in the memory behind ip_end, as far as read
    registers,    \* std::vector<Value>(256)
    ip,           \* instruction pointer, as a word index from ip_begin
    pc,           \* position inside run()
    i,            \* preemption counter of the for loop in run()
    ip_before,    \* ip at the start of the current cycle
    greedy,       \* run(): was the first word of the bundle greedy
    bundle_ip,    \* run(): ip at the start of the bundle
    instruction,  \* run_instruction(): the word fetched last
    stderr,       \* what run() and execute() have logged
    nops,         \* instructions dispatched in the current cycle
    value,        \* the value given to op_li
    is_signed,    \* which overload of op_li expands it
    li_parts,     \* op_li(): what to_loading_parts_unsigned returned
    codec,        \* codec round trip: operands, word, decoded operands
    nodes,           \* assembler: the top-level nodes of the parsed source
    rodata_buf,      \* assembler: rodata_contents, the bytes of .rodata
    string_table,    \* assembler: the bytes of .strtab
    symbol_table,    \* assembler: std::vector<Elf64_Sym>
    symbol_map,      \* assembler: symbol name -> index into symbol_table
    entry_point_fn,  \* assembler: what find_entry_point() returned
    asm_text,        \* assembler: the instruction words emitted as .text
    reloc_table,     \* assembler: what make_reloc_table() returned
    diagnostic,      \* assembler: the compile-time error it exited with
    a_out,           \* the image file written by an assembler
    exit_status,     \* assembler: the status its process ended with
    program_header,  \* VM main(): the program header read last
    stack,           \* viua::vm::Stack: proc (stack break, pointers), frames
    abort_execution, \* the abort_execution thrown by an instruction
    dispatched,      \* run(): the instructions dispatched since it was called
    thrown,          \* legacy VM: the exception an operation threw
    source,          \* opcapture: the register captured from
    target,          \* opcapture: the register set of the closure
    references,      \* viua::types::Reference: the shared pointers and counters
    frames,          \* CPU: the call stack, a frame's address per entry
    frame_new,       \* CPU: the frame requested and not pushed yet
    uregset,         \* CPU: the register set in use
    register_set,    \* Thread: the registers of the register set in use
    threads,         \* CPU: the threads spawned, by number
    message_queue,   \* Thread: the messages that arrived and were not received
    instruction_pointer \* Thread: the address of the opcode to run next

\* what the assembler tools own
elf_vars == <<nodes, rodata_buf, string_table, symbol_table, symbol_map, entry_point_fn, asm_text, reloc_table, diagnostic, a_out, exit_status>>

\* what the process core (viua::vm) owns
\* what the legacy VM (src/src) owns
cpu_vars == <<frames, frame_new, uregset>>
thread_vars == <<register_set, threads, message_queue, instruction_pointer>>
legacy_vars == <<thrown, source, target, references, frames, frame_new, uregset,
                 register_set, threads, message_queue, instruction_pointer>>

core_vars == <<stack, abort_execution, dispatched, legacy_vars>>

vars == <<text, beyond, registers, ip, pc, i, ip_before, greedy, bundle_ip, instruction, stderr, nops, value, is_signed, li_parts, codec, elf_vars, program_header, core_vars>>

\* what the assembler side, the loader, the codec round trip and the process
\* core own
asm_vars == <<value, is_signed, li_parts, codec, elf_vars, program_header, core_vars>>

\* what the run of a text given as such leaves alone
other_vars == <<elf_vars, program_header, core_vars>>

\* std::optional
nullopt == [has_value |-> FALSE]
optional(v) == [has_value |-> TRUE, value |-> v]

\* no thread of the legacy VM runs
NoThread ==
    /\ register_set = <<>>
    /\ threads = <<>>
    /\ message_queue = <<>>
    /\ instruction_pointer = 0

\* the legacy VM has not been started
NoLegacy ==
    /\ thrown = nullopt
    /\ source = nullopt
    /\ target = <<>>
    /\ references = <<>>
    /\ frames = <<>>
    /\ frame_new = -1
    /\ uregset = 0
    /\ NoThread

\* no assembler has run, no image is loaded, no process exists
NoOthers ==
    /\ nodes = <<>>
    /\ rodata_buf = <<>>
    /\ string_table = <<>>
    /\ symbol_table = <<>>
    /\ symbol_map = <<>>
    /\ entry_point_fn = nullopt
    /\ asm_text = <<>>
    /\ reloc_table = <<>>
    /\ diagnostic = nullopt
    /\ a_out = nullopt
    /\ exit_status = nullopt
    /\ program_header = nullopt
    /\ stack = nullopt
    /\ abort_execution = nullopt
    /\ dispatched = 0
    /\ NoLegacy

-----------------------------------------------------------------------------
(* Bounds of the model. *)

\* longest text handed to run()
MaxTextLen == 4
\* how many words behind ip_end a run may read before the model stops it
MaxOverrun == 2

-----------------------------------------------------------------------------
(* 64-bit unsigned arithmetic on limbs. *)

LIMB == 2 ^ 16

U64(l0, l1, l2, l3) == <<l0, l1, l2, l3>>

Zero64 == U64(0, 0, 0, 0)

\* a value below 2^31 widened to 64 bits
FromNat(n) == U64(n % LIMB, n \div LIMB, 0, 0)

\* the low 32 bits can exceed what fits a model integer: only defined below 2^31
ToNat(a) == a[1] + LIMB * a[2]

RECURSIVE BitAnd(_, _, _)
BitAnd(x, y, n) ==
    IF n = 0 THEN 0
    ELSE (x % 2) * (y % 2) + 2 * BitAnd(x \div 2, y \div 2, n - 1)

RECURSIVE BitOr(_, _, _)
BitOr(x, y, n) ==
    IF n = 0 THEN 0
    ELSE (IF (x % 2) + (y % 2) > 0 THEN 1 ELSE 0)
         + 2 * BitOr(x \div 2, y \div 2, n - 1)

And64(a, b) == [k \in 1..4 |-> BitAnd(a[k], b[k], 16)]

Or64(a, b) == [k \in 1..4 |-> BitOr(a[k], b[k], 16)]

Not64(a) == [k \in 1..4 |-> (LIMB - 1) - a[k]]

LimbAt(a, k) == IF k >= 1 /\ k <= 4 THEN a[k] ELSE 0

\* a << n, 0 <= n < 64, bits shifted out are lost
Shl64(a, n) ==
    LET q == n \div 16
        r == n % 16
    IN  [k \in 1..4 |->
            ((LimbAt(a, k - q) * (2 ^ r)) % LIMB)
            + (LimbAt(a, k - q - 1) \div (2 ^ (16 - r)))]

\* a >> n, 0 <= n < 64
Shr64(a, n) ==
    LET q == n \div 16
        r == n % 16
    IN  [k \in 1..4 |->
            (LimbAt(a, k + q) \div (2 ^ r))
            + ((LimbAt(a, k + q + 1) % (2 ^ r)) * (2 ^ (16 - r)))]

\* a + b modulo 2^64
Add64(a, b) ==
    LET s1 == a[1] + b[1]
        s2 == a[2] + b[2] + (s1 \div LIMB)
        s3 == a[3] + b[3] + (s2 \div LIMB)
        s4 == a[4] + b[4] + (s3 \div LIMB)
    IN  U64(s1 % LIMB, s2 % LIMB, s3 % LIMB, s4 % LIMB)

\* the eight bytes of a, least significant first, indexed 0..7
Bytes(a) ==
    [k \in 0..7 |->
        IF k % 2 = 0 THEN a[(k \div 2) + 1] % 256 ELSE a[(k \div 2) + 1] \div 256]

\* the sum of the byte products A[j] * B[k - j] for j in 0..n
RECURSIVE Column(_, _, _, _)
Column(A, B, k, n) ==
    IF n < 0 THEN 0
    ELSE A[n] * B[k - n] + Column(A, B, k, n - 1)

\* a * b modulo 2^64, by long multiplication on bytes
Mul64(a, b) ==
    LET A == Bytes(a)
        B == Bytes(b)
        t0 == Column(A, B, 0, 0)
        t1 == Column(A, B, 1, 1) + (t0 \div 256)
        t2 == Column(A, B, 2, 2) + (t1 \div 256)
        t3 == Column(A, B, 3, 3) + (t2 \div 256)
        t4 == Column(A, B, 4, 4) + (t3 \div 256)
        t5 == Column(A, B, 5, 5) + (t4 \div 256)
        t6 == Column(A, B, 6, 6) + (t5 \div 256)
        t7 == Column(A, B, 7, 7) + (t6 \div 256)
    IN  U64((t0 % 256) + 256 * (t1 % 256), (t2 % 256) + 256 * (t3 % 256),
            (t4 % 256) + 256 * (t5 % 256), (t6 % 256) + 256 * (t7 % 256))

-----------------------------------------------------------------------------
(* Instruction words: viua/arch/arch.h and viua/arch/ops.h.                *)
(* Opcode word (16 bits): greedy bit, three format bits, opcode number.    *)
(* A register access takes the low 12 bits of its 16-bit field (index,     *)
(* direct bit, register set); the wide immediates of the E and R formats   *)
(* use the bits the register fields leave free.                            *)

GREEDY == 32768
OPCODE_MASK == 32767
FORMAT_MASK == 28672

FORMAT_N == 0
FORMAT_T == 4096
FORMAT_D == 8192
FORMAT_S == 12288
FORMAT_F == 16384
FORMAT_E == 20480
FORMAT_R == 24576

OPCODE_NOOP == FORMAT_N + 0
OPCODE_HALT == FORMAT_N + 1
OPCODE_EBREAK == FORMAT_N + 2
OPCODE_ADD == FORMAT_T + 1
OPCODE_SUB == FORMAT_T + 2
OPCODE_MUL == FORMAT_T + 3
OPCODE_DIV == FORMAT_T + 4
OPCODE_CALL == FORMAT_D + 1
OPCODE_DELETE == FORMAT_S + 1
OPCODE_LUI == FORMAT_E + 1
OPCODE_LUIU == FORMAT_E + 2
OPCODE_ADDI == FORMAT_R + 1
OPCODE_ADDIU == FORMAT_R + 2
OPCODE_SUBI == FORMAT_R + 3

\* enum REGISTER_SET
REGISTER_SET_VOID == 0
REGISTER_SET_LOCAL == 1
REGISTER_SET_ARGUMENT == 2

Register_access(set, direct, index) ==
    [set |-> set, direct |-> direct, index |-> index]

make_local(index) == Register_access(REGISTER_SET_LOCAL, TRUE, index)

make_void == Register_access(REGISTER_SET_VOID, TRUE, 0)

is_void(ra) == ra.set = REGISTER_SET_VOID

\* Register_access::encode: index in bits 0..7, direct in bit 8, set above
Register_access_encode(ra) ==
    ra.index + 256 * (IF ra.direct THEN 1 ELSE 0) + 512 * ra.set

\* Register_access::decode of the low 12 bits of a register field
Register_access_decode(raw) ==
    Register_access((raw \div 512) % 8, ((raw \div 256) % 2) = 1, raw % 256)

N_encode(ins) == U64(ins.opcode, 0, 0, 0)

N_decode(raw) == [opcode |-> raw[1]]

S_encode(ins) == U64(ins.opcode, Register_access_encode(ins.out), 0, 0)

S_decode(raw) ==
    [opcode |-> raw[1], out |-> Register_access_decode(raw[2] % 4096)]

D_encode(ins) ==
    U64(ins.opcode, Register_access_encode(ins.out),
        Register_access_encode(ins.in), 0)

D_decode(raw) ==
    [opcode |-> raw[1],
     out |-> Register_access_decode(raw[2] % 4096),
     in |-> Register_access_decode(raw[3] % 4096)]

T_encode(ins) ==
    U64(ins.opcode, Register_access_encode(ins.out),
        Register_access_encode(ins.lhs), Register_access_encode(ins.rhs))

T_decode(raw) ==
    [opcode |-> raw[1],
     out |-> Register_access_decode(raw[2] % 4096),
     lhs |-> Register_access_decode(raw[3] % 4096),
     rhs |-> Register_access_decode(raw[4] % 4096)]

\* E: the 36-bit immediate is a 64-bit quantity; its top four bits ride in
\* the free bits of the register field
E_encode(ins) ==
    U64(ins.opcode,
        Register_access_encode(ins.out) + 4096 * (ins.immediate[3] % 16),
        ins.immediate[1], ins.immediate[2])

\* the four top bits of the immediate left behind in the register field
E_decode_low_32(raw) ==
    [opcode |-> raw[1],
     out |-> Register_access_decode(raw[2] % 4096),
     immediate |-> U64(raw[3], raw[4], 0, 0)]

E_decode(raw) ==
    [opcode |-> raw[1],
     out |-> Register_access_decode(raw[2] % 4096),
     immediate |-> U64(raw[3], raw[4], raw[2] \div 4096, 0)]

\* R: the 24-bit immediate is a uint32_t; bits 16..23 ride in the free bits
\* of the two register fields
R_encode(ins) ==
    U64(ins.opcode,
        Register_access_encode(ins.out) + 4096 * ((ins.immediate \div 1048576) % 16),
        Register_access_encode(ins.in) + 4096 * ((ins.immediate \div LIMB) % 16),
        ins.immediate % LIMB)

R_decode(raw) ==
    [opcode |-> raw[1],
     out |-> Register_access_decode(raw[2] % 4096),
     in |-> Register_access_decode(raw[3] % 4096),
     immediate |-> raw[4] + LIMB * (raw[3] \div 4096)
                   + 1048576 * (raw[2] \div 4096)]

\* F: the 32-bit immediate, kept as a 64-bit quantity
F_encode(ins) ==
    U64(ins.opcode, Register_access_encode(ins.out),
        ins.immediate[1], ins.immediate[2])

F_decode(raw) ==
    [opcode |-> raw[1],
     out |-> Register_access_decode(raw[2] % 4096),
     immediate |-> U64(raw[3], raw[4], 0, 0)]

\* the constructors of the format structs
N(opcode) == [opcode |-> opcode]
S(opcode, out) == [opcode |-> opcode, out |-> out]
D(opcode, out, in) == [opcode |-> opcode, out |-> out, in |-> in]
T(opcode, out, lhs, rhs) ==
    [opcode |-> opcode, out |-> out, lhs |-> lhs, rhs |-> rhs]
E(opcode, out, immediate) ==
    [opcode |-> opcode, out |-> out, immediate |-> immediate]
R(opcode, out, in, immediate) ==
    [opcode |-> opcode, out |-> out, in |-> in, immediate |-> immediate]
F(opcode, out, immediate) ==
    [opcode |-> opcode, out |-> out, immediate |-> immediate]

\* raw & GREEDY
IsGreedy(raw) == BitAnd(raw[1], GREEDY, 16) # 0

-----------------------------------------------------------------------------
(* The li decomposition and expansion: new/src/tools/asm.cpp.              *)

LOW_24 == U64(\hFFFF, \h00FF, 0, 0)
HIGH_36 == U64(0, \hF000, \hFFFF, \hFFFF)

\* std::pair
pair(first, second) == [first |-> first, second |-> second]

\* the shortcut for a low part of 24 bits left out: the low part is always split
to_loading_parts_unsigned_always_split(v) ==
    LET high_part == Shr64(And64(v, HIGH_36), 28)
        low_part == ToNat(And64(v, Not64(HIGH_36)))
        multiplier == 16
        remainder == low_part % multiplier
        base == (low_part - remainder) \div multiplier
    IN  pair(high_part, pair(pair(base, multiplier), remainder))

\* the high part shifted down by 32 bits, not 28
to_loading_parts_unsigned_shift_32(v) ==
    LET high_part == Shr64(And64(v, HIGH_36), 32)
        low_part == ToNat(And64(v, Not64(HIGH_36)))
        multiplier == 16
        remainder == low_part % multiplier
        base == (low_part - remainder) \div multiplier
    IN  IF BitAnd(low_part, ToNat(LOW_24), 32) = low_part
        THEN pair(high_part, pair(pair(low_part, 0), 0))
        ELSE pair(high_part, pair(pair(base, multiplier), remainder))

\* the remainder of the division by the multiplier lost
to_loading_parts_unsigned_no_remainder(v) ==
    LET high_part == Shr64(And64(v, HIGH_36), 28)
        low_part == ToNat(And64(v, Not64(HIGH_36)))
        multiplier == 16
        base == low_part \div multiplier
    IN  IF BitAnd(low_part, ToNat(LOW_24), 32) = low_part
        THEN pair(high_part, pair(pair(low_part, 0), 0))
        ELSE pair(high_part, pair(pair(base, multiplier), 0))

\* the high part left where it stands in the value, not shifted down
to_loading_parts_unsigned_not_shifted(v) ==
    LET high_part == And64(v, HIGH_36)
        low_part == ToNat(And64(v, Not64(HIGH_36)))
        multiplier == 16
        remainder == low_part % multiplier
        base == (low_part - remainder) \div multiplier
    IN  IF BitAnd(low_part, ToNat(LOW_24), 32) = low_part
        THEN pair(high_part, pair(pair(low_part, 0), 0))
        ELSE pair(high_part, pair(pair(base, multiplier), remainder))

to_loading_parts_unsigned(v) ==
    LET high_part == Shr64(And64(v, HIGH_36), 28)
        low_part == ToNat(And64(v, Not64(HIGH_36)))
        multiplier == 16
        remainder == low_part % multiplier
        base == (low_part - remainder) \div multiplier
    IN  IF BitAnd(low_part, ToNat(LOW_24), 32) = low_part
        THEN pair(high_part, pair(pair(low_part, 0), 0))
        ELSE pair(high_part, pair(pair(base, multiplier), remainder))

\* the greedy bit left off
Greedy_left_off(opcode) == opcode

\* GREEDY | opcode
Greedy(opcode) == BitOr(GREEDY, opcode, 16)

\* the body shared by the two overloads of op_li, which differ in the
\* opcodes they emit: (LUIU, ADDIU) for uint64_t, (LUI, ADDI) for int64_t
op_li_with(instructions, v, lui, addi) ==
    LET parts == to_loading_parts_unsigned(v)
        upper == IF parts.first # Zero64
                 THEN <<E_encode(E(Greedy(lui), make_local(1), parts.first))>>
                 ELSE <<>>
        base == parts.second.first.first
        multiplier == parts.second.first.second
        remainder == parts.second.second
    IN  IF multiplier # 0
        THEN instructions \o upper \o
             << R_encode(R(Greedy(addi), make_local(2), make_void, base)),
                R_encode(R(Greedy(addi), make_local(3), make_void, multiplier)),
                T_encode(T(Greedy(OPCODE_MUL), make_local(2), make_local(2),
                           make_local(3))),
                R_encode(R(Greedy(addi), make_local(3), make_void, remainder)),
                T_encode(T(Greedy(OPCODE_ADD), make_local(2), make_local(2),
                           make_local(3))),
                T_encode(T(OPCODE_ADD, make_local(1), make_local(1),
                           make_local(2))) >>
        ELSE instructions \o upper \o
             << R_encode(R(addi, make_local(1), make_void, base)) >>

op_li_unsigned(instructions, v) ==
    op_li_with(instructions, v, OPCODE_LUIU, OPCODE_ADDIU)

op_li_signed(instructions, v) ==
    op_li_with(instructions, v, OPCODE_LUI, OPCODE_ADDI)

-----------------------------------------------------------------------------
(* The register file and the executors: new/src/tools/vm.cpp.              *)

NumRegisters == 256

PREEMPTION_THRESHOLD == 2

\* the null sentinel an executor returns instead of a next pointer
nullptr == -1

Value(type_of_unboxed, v) == [type_of_unboxed |-> type_of_unboxed, value |-> v]

\* a value-initialised Value
VoidValue == Value("Void", Zero64)

Value_is_void(v) == v.type_of_unboxed = "Void"

\* ADD that takes the tag of the right-hand operand
execute_ADD_rhs_tag(regs, op) ==
    [regs EXCEPT ![op.out.index] =
        Value(regs[op.rhs.index].type_of_unboxed,
              Add64(regs[op.lhs.index].value, regs[op.rhs.index].value))]

execute_ADD(regs, op) ==
    [regs EXCEPT ![op.out.index] =
        Value(regs[op.lhs.index].type_of_unboxed,
              Add64(regs[op.lhs.index].value, regs[op.rhs.index].value))]

execute_MUL(regs, op) ==
    [regs EXCEPT ![op.out.index] =
        Value(regs[op.lhs.index].type_of_unboxed,
              Mul64(regs[op.lhs.index].value, regs[op.rhs.index].value))]

\* DELETE that clears the payload and keeps the tag
execute_DELETE_keeps_tag(regs, op) ==
    [regs EXCEPT ![op.out.index] =
        Value(regs[op.out.index].type_of_unboxed, Zero64)]

execute_DELETE(regs, op) ==
    [regs EXCEPT ![op.out.index] = Value("Void", Zero64)]

execute_LUI(regs, op) ==
    [regs EXCEPT ![op.out.index] =
        Value("Integer_signed", Shl64(op.immediate, 28))]

execute_LUIU(regs, op) ==
    [regs EXCEPT ![op.out.index] =
        Value("Integer_unsigned", Shl64(op.immediate, 28))]

execute_ADDI(regs, op) ==
    LET base == IF is_void(op.in) THEN Zero64 ELSE regs[op.in.index].value
    IN  [regs EXCEPT ![op.out.index] =
            Value("Integer_signed", Add64(base, FromNat(op.immediate)))]

\* ADDIU that leaves the tag of the out slot as it was
execute_ADDIU_keeps_tag(regs, op) ==
    LET base == IF is_void(op.in) THEN Zero64 ELSE regs[op.in.index].value
    IN  [regs EXCEPT ![op.out.index] =
            Value(regs[op.out.index].type_of_unboxed,
                  Add64(base, FromNat(op.immediate)))]

execute_ADDIU(regs, op) ==
    LET base == IF is_void(op.in) THEN Zero64 ELSE regs[op.in.index].value
    IN  [regs EXCEPT ![op.out.index] =
            Value("Integer_unsigned", Add64(base, FromNat(op.immediate)))]

\* EBREAK: one line per register that is not void, in index order
execute_EBREAK(regs, k) ==
    LET indexes == [j \in 1..(NumRegisters - k) |-> k + j - 1]
        shown == SelectSeq(indexes, LAMBDA r : ~Value_is_void(regs[r]))
    IN  [j \in 1..Len(shown) |->
            <<"register", shown[j], regs[shown[j]].type_of_unboxed,
              regs[shown[j]].value>>]

\* what one call of the dispatching execute() yields: the register file, the
\* next instruction pointer (or nullptr), and the lines written to stderr
Executed(regs, next, lines) == [registers |-> regs, ip |-> next, lines |-> lines]

execute_T(regs, at, raw, opcode) ==
    LET ins == T_decode(raw)
    IN  CASE opcode = OPCODE_ADD ->
                Executed(execute_ADD(regs, ins), at + 1, << <<"op", opcode>> >>)
          [] opcode = OPCODE_MUL ->
                Executed(execute_MUL(regs, ins), at + 1, << <<"op", opcode>> >>)
          [] OTHER ->
                Executed(regs, nullptr, << <<"unimplemented", opcode>> >>)

execute_S(regs, at, raw, opcode) ==
    LET ins == S_decode(raw)
    IN  CASE opcode = OPCODE_DELETE ->
                Executed(execute_DELETE(regs, ins), at + 1, << <<"op", opcode>> >>)
          [] OTHER ->
                Executed(regs, nullptr, << <<"unimplemented", opcode>> >>)

\* the switch over OPCODE_E has no default: any other opcode falls out of it
execute_E(regs, at, raw, opcode) ==
    LET ins == E_decode(raw)
    IN  CASE opcode = OPCODE_LUI ->
                Executed(execute_LUI(regs, ins), at + 1, << <<"op", opcode>> >>)
          [] opcode = OPCODE_LUIU ->
                Executed(execute_LUIU(regs, ins), at + 1, << <<"op", opcode>> >>)
          [] OTHER ->
                Executed(regs, at + 1, <<>>)

\* the switch over OPCODE_R has no default either
execute_R(regs, at, raw, opcode) ==
    LET ins == R_decode(raw)
    IN  CASE opcode = OPCODE_ADDI ->
                Executed(execute_ADDI(regs, ins), at + 1, << <<"op", opcode>> >>)
          [] opcode = OPCODE_ADDIU ->
                Executed(execute_ADDIU(regs, ins), at + 1, << <<"op", opcode>> >>)
          [] OTHER ->
                Executed(regs, at + 1, <<>>)

\* HALT treated like NOOP: the executor returns the next word
execute_N_halt_goes_on(regs, at, raw, opcode) ==
    CASE opcode = OPCODE_EBREAK ->
            Executed(regs, at + 1,
                     << <<"op", opcode>> >> \o execute_EBREAK(regs, 0))
      [] OTHER ->
            Executed(regs, at + 1, << <<"op", opcode>> >>)

\* format N logs the mnemonic first; its switch has no default
execute_N(regs, at, raw, opcode) ==
    CASE opcode = OPCODE_NOOP ->
            Executed(regs, at + 1, << <<"op", opcode>> >>)
      [] opcode = OPCODE_HALT ->
            Executed(regs, nullptr, << <<"op", opcode>> >>)
      [] opcode = OPCODE_EBREAK ->
            Executed(regs, at + 1,
                     << <<"op", opcode>> >> \o execute_EBREAK(regs, 0))
      [] OTHER ->
            Executed(regs, at + 1, << <<"op", opcode>> >>)

\* machine::core::ins::execute(registers, ip)
execute(regs, at, raw) ==
    LET opcode == BitAnd(raw[1], OPCODE_MASK, 16)
        format == BitAnd(opcode, FORMAT_MASK, 16)
    IN  CASE format = FORMAT_T -> execute_T(regs, at, raw, opcode)
          [] format = FORMAT_S -> execute_S(regs, at, raw, opcode)
          [] format = FORMAT_E -> execute_E(regs, at, raw, opcode)
          [] format = FORMAT_R -> execute_R(regs, at, raw, opcode)
          [] format = FORMAT_N -> execute_N(regs, at, raw, opcode)
          [] format = FORMAT_D \/ format = FORMAT_F ->
                Executed(regs, nullptr, << <<"unimplemented", opcode>> >>)
          [] OTHER -> Executed(regs, at + 1, <<>>)

-----------------------------------------------------------------------------
(* The instruction words the texts of the run model are made of. *)

NOOP == N_encode(N(OPCODE_NOOP))
HALT == N_encode(N(OPCODE_HALT))
HALT_greedy == N_encode(N(Greedy(OPCODE_HALT)))
\* addiu %1, %1, 1, greedy: counts in register 1 how often it ran
ADDIU_greedy ==
    R_encode(R(Greedy(OPCODE_ADDIU), make_local(1), make_local(1), 1))
\* format T, no case in the switch over OPCODE_T
SUB == T_encode(T(OPCODE_SUB, make_local(1), make_local(1), make_local(1)))
\* format R, no case in the switch over OPCODE_R
SUBI == R_encode(R(OPCODE_SUBI, make_local(1), make_local(1), 1))

RunWords == {NOOP, HALT, HALT_greedy, ADDIU_greedy, SUB, SUBI}

\* what a read behind the end of the text may find
MemoryWords == RunWords

Texts == UNION {[1..n -> RunWords] : n \in 0..MaxTextLen}

-----------------------------------------------------------------------------
(* run() and run_instruction(): new/src/tools/vm.cpp.                      *)

ip_end == Len(text)

\* the word at word index k: inside the text, or behind its end
Fetched(k) == Len(text) + Len(beyond) > k

Mem(k) == IF k < Len(text) THEN text[k + 1] ELSE beyond[k - Len(text) + 1]

\* the for loop of run() goes round once more
ForCondition == i < PREEMPTION_THRESHOLD /\ ip # ip_end

\* run() and run_instruction() are about to read *ip
ReadsIp == (pc = "for" /\ ForCondition) \/ pc = "run_instruction"

\* while (ip != ip_end) { ip_before = ip; log "cycle at"; for (i = 0; ...
RunWhile ==
    /\ pc = "run"
    /\ IF ip # ip_end
       THEN /\ ip_before' = ip
            /\ stderr' = Append(stderr, <<"cycle", ip * 8>>)
            /\ i' = 0
            /\ nops' = 0
            /\ pc' = "for"
       ELSE /\ pc' = "done"
            /\ UNCHANGED <<ip_before, stderr, i, nops>>
    /\ UNCHANGED <<text, beyond, registers, ip, greedy, bundle_ip,
                   instruction, asm_vars>>

\* the test of the for loop, and the head of its body up to the call of
\* run_instruction()
RunFor ==
    /\ pc = "for"
    /\ IF ForCondition
       THEN /\ Fetched(ip)
            /\ greedy' = IsGreedy(Mem(ip))
            /\ bundle_ip' = ip
            /\ stderr' = Append(stderr,
                    <<(IF IsGreedy(Mem(ip)) THEN "bundle" ELSE "single"), i>>)
            /\ pc' = "run_instruction"
       ELSE /\ pc' = "cycle_end"
            /\ UNCHANGED <<greedy, bundle_ip, stderr>>
    /\ UNCHANGED <<text, beyond, registers, ip, i, ip_before, instruction,
                   nops, asm_vars>>

\* a do-while that forgot the greedy bit: every word is run on its own
BundleContinues_single(next, raw) == FALSE

\* while ((ip != nullptr) and (instruction & GREEDY))
BundleContinues(next, raw) == next # nullptr /\ IsGreedy(raw)

\* one turn of the do-while of run_instruction(): fetch, execute, test
RunInstruction ==
    /\ pc = "run_instruction"
    /\ Fetched(ip)
    /\ LET done == execute(registers, ip, Mem(ip))
       IN  /\ instruction' = Mem(ip)
           /\ registers' = done.registers
           /\ ip' = done.ip
           /\ stderr' = stderr \o done.lines
           /\ nops' = nops + 1
           /\ dispatched' = dispatched + 1
           /\ pc' = IF BundleContinues(done.ip, Mem(ip))
                    THEN "run_instruction"
                    ELSE "returned"
    /\ UNCHANGED <<text, beyond, i, ip_before, greedy, bundle_ip, value,
                   is_signed, li_parts, codec, elf_vars, program_header,
                   stack, abort_execution, legacy_vars>>

\* the preemption counter after a bundle that ran from bundle_ip to next:
\* if (greedy and ip != ip_end) { i += (ip - bundle_ip) - 1; } and then ++i
Counted(count, was_greedy, next, from) ==
    IF was_greedy /\ next # ip_end
    THEN count + ((next - from) - 1) + 1
    ELSE count + 1

\* the rest of the for body after run_instruction() returned, and ++i
RunReturned ==
    /\ pc = "returned"
    /\ LET next == IF ip = nullptr THEN ip_end ELSE ip
       IN  /\ ip' = next
           /\ i' = Counted(i, greedy, next, bundle_ip)
    /\ pc' = "for"
    /\ UNCHANGED <<text, beyond, registers, ip_before, greedy, bundle_ip,
                   instruction, stderr, nops, asm_vars>>

\* after the for loop: "halted" and break, or "preempted after n ops"
RunCycleEnd ==
    /\ pc = "cycle_end"
    /\ IF ip = ip_end
       THEN /\ stderr' = Append(stderr, <<"halted", 0>>)
            /\ pc' = "done"
       ELSE /\ stderr' = Append(stderr, <<"preempted", ip - ip_before>>)
            /\ pc' = "run"
    /\ UNCHANGED <<text, beyond, registers, ip, i, ip_before, greedy,
                   bundle_ip, instruction, nops, asm_vars>>

\* A read of *ip at or behind ip_end is outside the text (run_instruction()
\* does not compare ip with ip_end, and neither does run() once ip has
\* passed it). Whatever lies there is read ...
OverrunRead ==
    /\ ReadsIp
    /\ ~Fetched(ip)
    /\ Len(beyond) < MaxOverrun
    /\ \E w \in MemoryWords : beyond' = Append(beyond, w)
    /\ UNCHANGED <<text, registers, ip, pc, i, ip_before, greedy, bundle_ip,
                   instruction, stderr, nops, asm_vars>>

\* ... or the read faults
OverrunFault ==
    /\ ReadsIp
    /\ ~Fetched(ip)
    /\ pc' = "fault"
    /\ UNCHANGED <<text, beyond, registers, ip, i, ip_before, greedy,
                   bundle_ip, instruction, stderr, nops, asm_vars>>

\* std::vector<Value>(256)
InitRegisters == [k \in 0..(NumRegisters - 1) |-> VoidValue]

\* main(): run(registers, text.data(), {.., text.begin(), text.end()})
InitRun ==
    /\ beyond = <<>>
    /\ registers = InitRegisters
    /\ ip = 0
    /\ i = 0
    /\ ip_before = 0
    /\ greedy = FALSE
    /\ bundle_ip = 0
    /\ instruction = Zero64
    /\ stderr = <<>>
    /\ nops = 0

Init ==
    /\ text \in Texts
    /\ pc = "run"
    /\ InitRun
    /\ value = Zero64
    /\ is_signed = FALSE
    /\ li_parts = to_loading_parts_unsigned(Zero64)
    /\ codec = <<>>
    /\ NoOthers

Next ==
    \/ RunWhile
    \/ RunFor
    \/ RunInstruction
    \/ RunReturned
    \/ RunCycleEnd
    \/ OverrunRead
    \/ OverrunFault

Spec == Init /\ [][Next]_vars

-----------------------------------------------------------------------------
(* op_li() expanded for one value and run from a clean register file.      *)

\* the values of the decomposition test of new/src/tools/asm.cpp, those of
\* its sample program (42, -1), and the edges of the 24- and 28-bit parts
LiValues ==
    { U64(0, 0, 0, 0),
      U64(1, 0, 0, 0),
      U64(42, 0, 0, 0),
      U64(\hDEAD, \h00BE, 0, 0),
      U64(\hBEEF, \hDEAD, 0, 0),
      U64(\hFFFF, \h00FF, 0, 0),
      U64(0, \h0100, 0, 0),
      U64(\hFFFF, \h0FFF, 0, 0),
      U64(0, \h1000, 0, 0),
      U64(0, \hF000, \hFFFF, \hFFFF),
      U64(0, 0, 0, \h8000),
      U64(\hFFFF, \hFFFF, \hFFFF, \hFFFF),
      U64(\hBEEF, \hFDAD, \hBEEF, \hDEAD) }
    \cup { U64(\hBEEF, \hD0AD + 256 * x, \hBEEF, \hDEAD) : x \in 0..14 }

\* op_li(ip, value) into an empty text
Assemble ==
    /\ pc = "asm"
    /\ li_parts' = to_loading_parts_unsigned(value)
    /\ text' = IF is_signed
               THEN op_li_signed(<<>>, value)
               ELSE op_li_unsigned(<<>>, value)
    /\ pc' = "run"
    /\ UNCHANGED <<beyond, registers, ip, i, ip_before, greedy, bundle_ip,
                   instruction, stderr, nops, value, is_signed, codec,
                   other_vars>>

InitLi ==
    /\ text = <<>>
    /\ pc = "asm"
    /\ InitRun
    /\ value \in LiValues
    /\ is_signed \in BOOLEAN
    /\ li_parts = pair(Zero64, pair(pair(0, 0), 0))
    /\ codec = <<>>
    /\ NoOthers

NextLi ==
    \/ Assemble
    \/ RunWhile
    \/ RunFor
    \/ RunInstruction
    \/ RunReturned
    \/ RunCycleEnd

SpecLi == InitLi /\ [][NextLi]_vars

-----------------------------------------------------------------------------
(* The codec round trip: the encode/decode checks of main() in             *)
(* new/src/tools/asm.cpp, over every format.                               *)

\* opcode words: plain, greedy, and the 0xdead of the checks in main()
CodecOpcodes == {OPCODE_ADD, Greedy(OPCODE_ADD), \hDEAD}

CodecAccesses ==
    {make_void}
    \cup { Register_access(set, direct, index) :
            set \in {REGISTER_SET_LOCAL, REGISTER_SET_ARGUMENT},
            direct \in BOOLEAN,
            index \in {0, \h55, \hFF} }

\* 36-bit immediates
CodecImmediates36 ==
    { Zero64, U64(1, 0, 0, 0), U64(\hF012, \hBCDE, \hA, 0),
      U64(0, 0, 1, 0), U64(\hFFFF, \hFFFF, \hF, 0) }

\* 24-bit immediates
CodecImmediates24 == {0, 1, \hABCDEF, \h10000, \hFFFFFF}

\* 32-bit immediates; 0x4048f5c3 is the float 3.14
CodecImmediates32 ==
    { Zero64, U64(1, 0, 0, 0), U64(\hF5C3, \h4048, 0, 0),
      U64(0, \h8000, 0, 0), U64(\hFFFF, \hFFFF, 0, 0) }

CodecInputs ==
    { [format |-> "N", ins |-> N(op)] : op \in CodecOpcodes }
    \cup { [format |-> "S", ins |-> S(op, out)] :
            op \in CodecOpcodes, out \in CodecAccesses }
    \cup { [format |-> "D", ins |-> D(op, out, in)] :
            op \in CodecOpcodes, out \in CodecAccesses, in \in CodecAccesses }
    \cup { [format |-> "T", ins |-> T(op, out, lhs, rhs)] :
            op \in CodecOpcodes, out \in CodecAccesses,
            lhs \in CodecAccesses, rhs \in CodecAccesses }
    \cup { [format |-> "E", ins |-> E(op, out, imm)] :
            op \in CodecOpcodes, out \in CodecAccesses,
            imm \in CodecImmediates36 }
    \cup { [format |-> "R", ins |-> R(op, out, in, imm)] :
            op \in CodecOpcodes, out \in CodecAccesses,
            in \in CodecAccesses, imm \in CodecImmediates24 }
    \cup { [format |-> "F", ins |-> F(op, out, imm)] :
            op \in CodecOpcodes, out \in CodecAccesses,
            imm \in CodecImmediates32 }

encode(format, ins) ==
    CASE format = "N" -> N_encode(ins)
      [] format = "S" -> S_encode(ins)
      [] format = "D" -> D_encode(ins)
      [] format = "T" -> T_encode(ins)
      [] format = "E" -> E_encode(ins)
      [] format = "R" -> R_encode(ins)
      [] format = "F" -> F_encode(ins)

decode(format, raw) ==
    CASE format = "N" -> N_decode(raw)
      [] format = "S" -> S_decode(raw)
      [] format = "D" -> D_decode(raw)
      [] format = "T" -> T_decode(raw)
      [] format = "E" -> E_decode(raw)
      [] format = "R" -> R_decode(raw)
      [] format = "F" -> F_decode(raw)

\* auto const tm = F{...}; tm.encode()
CodecEncode ==
    /\ pc = "codec"
    /\ codec.stage = "made"
    /\ codec' = [stage |-> "encoded", format |-> codec.format,
                 tm |-> codec.tm, word |-> encode(codec.format, codec.tm)]
    /\ UNCHANGED <<text, beyond, registers, ip, pc, i, ip_before, greedy,
                   bundle_ip, instruction, stderr, nops, value, is_signed,
                   li_parts, other_vars>>

\* auto const td = F::decode(tm.encode())
CodecDecode ==
    /\ pc = "codec"
    /\ codec.stage = "encoded"
    /\ codec' = [stage |-> "decoded", format |-> codec.format,
                 tm |-> codec.tm, word |-> codec.word,
                 td |-> decode(codec.format, codec.word)]
    /\ UNCHANGED <<text, beyond, registers, ip, pc, i, ip_before, greedy,
                   bundle_ip, instruction, stderr, nops, value, is_signed,
                   li_parts, other_vars>>

InitCodec ==
    /\ text = <<>>
    /\ pc = "codec"
    /\ InitRun
    /\ value = Zero64
    /\ is_signed = FALSE
    /\ li_parts = pair(Zero64, pair(pair(0, 0), 0))
    /\ codec \in { [stage |-> "made", format |-> c.format, tm |-> c.ins] :
                    c \in CodecInputs }
    /\ NoOthers

NextCodec ==
    \/ CodecEncode
    \/ CodecDecode

SpecCodec == InitCodec /\ [][NextCodec]_vars

-----------------------------------------------------------------------------
(* What the claims speak of. *)

\* the last line on stderr
LastLine == IF stderr = <<>> THEN <<"none", 0>> ELSE stderr[Len(stderr)]

\* a preemption point: the cycle has just ended with "preempted after n ops"
Preempted == pc = "run" /\ LastLine[1] = "preempted"

\* raw & OPCODE_MASK
OpcodeOf(raw) == BitAnd(raw[1], OPCODE_MASK, 16)

\* the number of consecutive greedy words of t from position k on
RECURSIVE GreedyRun(_, _)
GreedyRun(t, k) ==
    IF k > Len(t) \/ ~IsGreedy(t[k]) THEN 0 ELSE 1 + GreedyRun(t, k + 1)

\* the longest greedy bundle of the text: a run of greedy words and the word
\* that closes it (counted even where the text ends before the closing word)
LongestBundle ==
    LET lens == {GreedyRun(text, k) + 1 : k \in 1..Len(text)} \cup {1}
    IN  CHOOSE n \in lens : \A m \in lens : m <= n

\* the opcodes the dispatch switch has a routine for
Implemented ==
    {OPCODE_ADD, OPCODE_MUL, OPCODE_DELETE, OPCODE_LUI, OPCODE_LUIU,
     OPCODE_ADDI, OPCODE_ADDIU, OPCODE_NOOP, OPCODE_HALT, OPCODE_EBREAK}

\* a HALT has been dispatched (instruction starts out as a NOOP word and
\* only run_instruction() writes it)
HaltDispatched == OpcodeOf(instruction) = OPCODE_HALT

-----------------------------------------------------------------------------
(* C1: no preemption point falls inside a greedy bundle. At every          *)
(* preemption point the cycle has dispatched the words from ip_before up   *)
(* to ip one after the other, it began on a bundle boundary, and the word  *)
(* dispatched last, the one before ip, does not carry the greedy bit: every *)
(* bundle the cycle began was run to its closing word.                     *)
C1_BundleNotSplit ==
    Preempted =>
        /\ ip > 0
        /\ Fetched(ip - 1)
        /\ ~IsGreedy(Mem(ip - 1))
        /\ instruction = Mem(ip - 1)
        /\ nops = ip - ip_before
        /\ (ip_before = 0 \/ ~IsGreedy(Mem(ip_before - 1)))

\* a cycle preempted right after a bundle that crossed the threshold
C1_Witness ==
    /\ Preempted
    /\ nops > PREEMPTION_THRESHOLD
    /\ ip >= 2
    /\ ip < ip_end
    /\ IsGreedy(Mem(ip - 2))

(* C8: every cycle that ends with a preemption point has dispatched N      *)
(* instructions, PREEMPTION_THRESHOLD <= N <= PREEMPTION_THRESHOLD - 1 + L, *)
(* L the length of the longest greedy bundle of the text, and N is what    *)
(* the log reports.                                                        *)
C8_PreemptedAfterThreshold ==
    Preempted =>
        /\ PREEMPTION_THRESHOLD <= nops
        /\ nops <= PREEMPTION_THRESHOLD - 1 + LongestBundle
        /\ LastLine[2] = nops

(* C9: once a HALT has been dispatched the executor has returned the null  *)
(* sentinel, which run() turns into ip_end; no further word is dispatched  *)
(* and no register changes, neither by the HALT nor after it; the log ends *)
(* with "halted", never with a preemption.                                 *)
C9_HaltEndsRun ==
    /\ [](HaltDispatched =>
            /\ pc \in {"returned", "for", "cycle_end", "done"}
            /\ ip = (IF pc = "returned" THEN nullptr ELSE ip_end)
            /\ LastLine[1] # "preempted"
            /\ (pc = "done" => LastLine = <<"halted", 0>>))
    /\ [][(HaltDispatched \/ HaltDispatched') =>
            /\ registers' = registers
            /\ (HaltDispatched => instruction' = instruction /\ nops' = nops)]_vars

\* a greedy HALT in the middle of a bundle ended the run: the word after it,
\* which would have counted register 1 up to 2, never ran
C9_Witness ==
    /\ pc = "done"
    /\ text = <<ADDIU_greedy, HALT_greedy, ADDIU_greedy>>
    /\ instruction = HALT_greedy
    /\ registers[1] = Value("Integer_unsigned", FromNat(1))

(* C10: a dispatched word whose opcode has no executor routine makes the   *)
(* dispatcher report it and return the null sentinel.                      *)
C10_UnimplementedEndsRun ==
    (pc = "returned" /\ OpcodeOf(instruction) \notin Implemented) =>
        /\ ip = nullptr
        /\ LastLine = <<"unimplemented", OpcodeOf(instruction)>>

\* format T behaves as claimed: SUB is reported and ends the run
C10_Witness ==
    /\ pc = "returned"
    /\ instruction = SUB
    /\ ip = nullptr
    /\ LastLine = <<"unimplemented", OPCODE_SUB>>

-----------------------------------------------------------------------------
(* The li claims, under SpecLi. *)

\* the parts as the claims name them
High36 == li_parts.first
Base == li_parts.second.first.first
Multiplier == li_parts.second.first.second
Remainder == li_parts.second.second

\* the tag the overload is to leave in the destination register
LiTag == IF is_signed THEN "Integer_signed" ELSE "Integer_unsigned"

(* C2: running the words op_li emitted for v from 256 void slots leaves    *)
(* register 1 with payload v, tagged Unsigned (uint64_t overload) or       *)
(* Signed (int64_t overload).                                              *)
C2_LiLoadsValue ==
    pc = "done" => registers[1] = Value(LiTag, value)

\* the first value of the sample program, loaded as claimed
C2_Witness ==
    /\ pc = "done"
    /\ ~is_signed
    /\ value = U64(\hBEEF, \hDEAD, \hBEEF, \hDEAD)
    /\ registers[1] = Value("Integer_unsigned", value)

(* C4, as stated: (high36 << 28) | (base * multiplier + remainder) = v     *)
(* for every v.                                                            *)
C4_PartsRebuildValue ==
    pc # "asm" =>
        Or64(Shl64(High36, 28), FromNat(Base * Multiplier + Remainder)) = value

(* C4, amended: (high36 << 28) | (base * multiplier + remainder) is v when *)
(* the multiplier is 16, and v with its low 28 bits cleared when the       *)
(* multiplier is 0 (the low part fits in 24 bits and is returned as base). *)
C4_PartsRebuildValueWhenSplit ==
    pc # "asm" =>
        Or64(Shl64(High36, 28), FromNat(Base * Multiplier + Remainder))
            = (IF Multiplier # 0 THEN value ELSE And64(value, HIGH_36))

\* a value whose low part is not zero and fits in 24 bits, under high bits
C4_Witness ==
    /\ pc # "asm"
    /\ Multiplier = 0
    /\ Base # 0
    /\ High36 # Zero64

(* C5: (high << 28) | low = v, where low is base * multiplier + remainder  *)
(* when the multiplier is not 0 and base when it is 0.                     *)
C5_DecompositionTest ==
    pc # "asm" =>
        LET high == Shl64(High36, 28)
            low == IF Multiplier # 0
                   THEN Base * Multiplier + Remainder
                   ELSE Base
        IN  Or64(high, FromNat(low)) = value

\* a value with all three of high part, base and remainder
C5_Witness ==
    /\ pc # "asm"
    /\ Multiplier = 16
    /\ Remainder # 0
    /\ Base # 0
    /\ High36 # Zero64

(* C6: of the words op_li emitted, every one but the last carries the      *)
(* greedy bit and the last does not: the expansion is one greedy bundle.   *)
C6_OneGreedyBundle ==
    pc # "asm" =>
        /\ Len(text) >= 1
        /\ \A k \in 1..Len(text) : IsGreedy(text[k]) <=> (k < Len(text))

\* the longest expansion: LUI and the six words of the split low part
C6_Witness ==
    /\ pc # "asm"
    /\ Len(text) = 7
    /\ is_signed

\* a word decoded in its own format, the greedy bit taken off the opcode
Disassembled(raw) ==
    LET opcode == OpcodeOf(raw)
        format == BitAnd(opcode, FORMAT_MASK, 16)
    IN  CASE format = FORMAT_T -> [T_decode(raw) EXCEPT !.opcode = opcode]
          [] format = FORMAT_E -> [E_decode(raw) EXCEPT !.opcode = opcode]
          [] format = FORMAT_R -> [R_decode(raw) EXCEPT !.opcode = opcode]
          [] OTHER -> [N_decode(raw) EXCEPT !.opcode = opcode]

\* the expansion as C7 words it, from h = v >> 28 and l = v & 0x0fffffff
ExpectedExpansion ==
    LET h == Shr64(value, 28)
        l == ToNat(And64(value, U64(\hFFFF, \h0FFF, 0, 0)))
        lui == IF is_signed THEN OPCODE_LUI ELSE OPCODE_LUIU
        addi == IF is_signed THEN OPCODE_ADDI ELSE OPCODE_ADDIU
        dest == make_local(1)
        t0 == make_local(2)
        t1 == make_local(3)
        upper == IF h # Zero64 THEN <<E(lui, dest, h)>> ELSE <<>>
    IN  IF l < 16777216
        THEN upper \o <<R(addi, dest, make_void, l)>>
        ELSE upper \o
             << R(addi, t0, make_void, l \div 16),
                R(addi, t1, make_void, 16),
                T(OPCODE_MUL, t0, t0, t1),
                R(addi, t1, make_void, l % 16),
                T(OPCODE_ADD, t0, t0, t1),
                T(OPCODE_ADD, dest, dest, t0) >>

(* C7: op_li emits a LUIU (LUI) of h into the destination exactly when     *)
(* h # 0; then a single ADDIU (ADDI) dest, void, l when l fits in 24 bits, *)
(* and otherwise the six instructions ADDIU t0, void, base; ADDIU t1,      *)
(* void, 16; MUL t0, t0, t1; ADDIU t1, void, remainder; ADD t0, t0, t1;    *)
(* ADD dest, dest, t0. With h = 0 and l in 24 bits that is one word.       *)
C7_ExpansionShape ==
    pc # "asm" =>
        /\ [k \in 1..Len(text) |-> Disassembled(text[k])] = ExpectedExpansion
        /\ (High36 = Zero64 /\ Base < 16777216 /\ Multiplier = 0
                => Len(text) = 1)

\* the one-word expansion of a small value
C7_Witness ==
    /\ pc # "asm"
    /\ Len(text) = 1
    /\ value = U64(42, 0, 0, 0)

-----------------------------------------------------------------------------
(* The codec claim, under SpecCodec. *)

(* C3: for every format and every operand tuple valid for it, decoding the *)
(* word that encode produced gives back the same opcode, greedy bit        *)
(* included, and the same operands.                                        *)
C3_CodecRoundTrip ==
    (pc = "codec" /\ codec.stage = "decoded") => codec.td = codec.tm

\* the E check of main(): opcode 0xdead, an indirect access, a 36-bit value
C3_Witness ==
    /\ pc = "codec"
    /\ codec.stage = "decoded"
    /\ codec.format = "E"
    /\ codec.tm.opcode = \hDEAD
    /\ codec.tm.immediate = U64(\hF012, \hBCDE, \hA, 0)
    /\ codec.td = codec.tm

-----------------------------------------------------------------------------
(* One instruction run on a register file that two earlier instructions    *)
(* have filled: the executors of new/src/tools/vm.cpp.                     *)

\* what the first two words leave in register r: nothing (void), a signed
\* zero, small and 24-bit unsigned values, 2^63 signed and
\* 0xfffffffff0000000 unsigned
InsSetups(r) ==
    { NOOP,
      R_encode(R(OPCODE_ADDI, make_local(r), make_void, 0)),
      R_encode(R(OPCODE_ADDIU, make_local(r), make_void, 3)),
      R_encode(R(OPCODE_ADDIU, make_local(r), make_void, \hFFFFFF)),
      E_encode(E(OPCODE_LUI, make_local(r), U64(0, 0, 8, 0))),
      E_encode(E(OPCODE_LUIU, make_local(r), U64(\hFFFF, \hFFFF, \hF, 0))) }

InsRegisters == {1, 2}

\* the instruction under study, over every choice of its operands
InsWords ==
    { T_encode(T(op, make_local(out), make_local(lhs), make_local(rhs))) :
        op \in {OPCODE_ADD, OPCODE_MUL, OPCODE_DIV},
        out \in InsRegisters, lhs \in InsRegisters, rhs \in InsRegisters }
    \cup { R_encode(R(op, make_local(out), in, imm)) :
        op \in {OPCODE_ADDI, OPCODE_ADDIU},
        out \in InsRegisters,
        in \in {make_void} \cup {make_local(r) : r \in InsRegisters},
        imm \in {0, 1, \hFFFFFF} }
    \cup { S_encode(S(OPCODE_DELETE, make_local(out))) : out \in InsRegisters }

\* the instruction comes third, after one word for each register, or after
\* the expansion of li %1, 0xffffffffffffffff, which leaves 2^64 - 1 in
\* register 1, 0xfffffff in register 2 and 15 in register 3
InsTexts ==
    { <<first, second, w>> :
        first \in InsSetups(1), second \in InsSetups(2), w \in InsWords }
    \cup { op_li_unsigned(<<>>, U64(\hFFFF, \hFFFF, \hFFFF, \hFFFF)) \o <<w>> :
        w \in InsWords }

InitIns ==
    /\ text \in InsTexts
    /\ pc = "run"
    /\ InitRun
    /\ value = Zero64
    /\ is_signed = FALSE
    /\ li_parts = to_loading_parts_unsigned(Zero64)
    /\ codec = <<>>
    /\ NoOthers

NextIns ==
    \/ RunWhile
    \/ RunFor
    \/ RunInstruction
    \/ RunReturned
    \/ RunCycleEnd

SpecIns == InitIns /\ [][NextIns]_vars

\* run_instruction() is about to dispatch a word with this opcode
Dispatching(opcode) ==
    /\ pc = "run_instruction"
    /\ Fetched(ip)
    /\ OpcodeOf(Mem(ip)) = opcode

\* run_instruction() has just dispatched the last word, with this opcode
Dispatched(opcode) ==
    /\ pc = "returned"
    /\ bundle_ip = Len(text) - 1
    /\ instruction = text[Len(text)]
    /\ OpcodeOf(instruction) = opcode

-----------------------------------------------------------------------------
(* C14: ADD (MUL) sets the payload of the out slot to the sum (product)    *)
(* modulo 2^64 of the payloads of the lhs and rhs slots and its tag to the *)
(* tag the lhs slot had before the instruction, whatever the tag of rhs    *)
(* and also when out is lhs or rhs; the next instruction pointer is the    *)
(* current one plus one word.                                              *)
C14_AddMulPayloadAndLhsTag ==
    [][ /\ (Dispatching(OPCODE_ADD) =>
              LET op == T_decode(Mem(ip))
              IN  /\ registers'[op.out.index].value =
                        Add64(registers[op.lhs.index].value,
                              registers[op.rhs.index].value)
                  /\ registers'[op.out.index].type_of_unboxed =
                        registers[op.lhs.index].type_of_unboxed
                  /\ ip' = ip + 1)
        /\ (Dispatching(OPCODE_MUL) =>
              LET op == T_decode(Mem(ip))
              IN  /\ registers'[op.out.index].value =
                        Mul64(registers[op.lhs.index].value,
                              registers[op.rhs.index].value)
                  /\ registers'[op.out.index].type_of_unboxed =
                        registers[op.lhs.index].type_of_unboxed
                  /\ ip' = ip + 1) ]_vars

\* add %1, %1, %2 with 2^63 signed in %1 and 0xfffffffff0000000 unsigned in
\* %2: the sum wraps, out is lhs, and the tag is that of lhs
C14_Witness ==
    /\ Dispatched(OPCODE_ADD)
    /\ text[1] = E_encode(E(OPCODE_LUI, make_local(1), U64(0, 0, 8, 0)))
    /\ text[2] = E_encode(E(OPCODE_LUIU, make_local(2),
                            U64(\hFFFF, \hFFFF, \hF, 0)))
    /\ text[3] = T_encode(T(OPCODE_ADD, make_local(1), make_local(1),
                            make_local(2)))
    /\ registers[1] = Value("Integer_signed", U64(0, \hF000, \hFFFF, \h7FFF))
    /\ registers[2].type_of_unboxed = "Integer_unsigned"
    /\ ip = 3
    /\ LastLine = <<"op", OPCODE_ADD>>

(* C15: ADDI and ADDIU set the payload of the out slot to base + immediate *)
(* modulo 2^64, base being 0 when the input access is void and the payload *)
(* of the input register otherwise, and tag the out slot Signed (ADDI) or  *)
(* Unsigned (ADDIU) whatever the tag of the input.                         *)
C15_AddImmediate ==
    [][ \A opcode \in {OPCODE_ADDI, OPCODE_ADDIU} :
          Dispatching(opcode) =>
            LET op == R_decode(Mem(ip))
                base == IF op.in.set = REGISTER_SET_VOID
                        THEN Zero64
                        ELSE registers[op.in.index].value
            IN  /\ registers'[op.out.index].value =
                      Add64(base, FromNat(op.immediate))
                /\ registers'[op.out.index].type_of_unboxed =
                      (IF opcode = OPCODE_ADDI THEN "Integer_signed"
                       ELSE "Integer_unsigned") ]_vars

\* addi %2, %1, 1 with 2^64 - 1 unsigned in %1: the sum wraps to 0 and is
\* tagged signed
C15_Witness ==
    /\ Dispatched(OPCODE_ADDI)
    /\ Len(text) = 8
    /\ text[8] = R_encode(R(OPCODE_ADDI, make_local(2), make_local(1), 1))
    /\ registers[1] =
            Value("Integer_unsigned", U64(\hFFFF, \hFFFF, \hFFFF, \hFFFF))
    /\ registers[2] = Value("Integer_signed", Zero64)

(* C16: from any register file, DELETE r leaves slot r void (tag Void) and *)
(* leaves the tag and the payload of every other slot unchanged.           *)
C16_DeleteFrame ==
    [][ Dispatching(OPCODE_DELETE) =>
          LET op == S_decode(Mem(ip))
          IN  /\ Value_is_void(registers'[op.out.index])
              /\ \A k \in 0..(NumRegisters - 1) :
                    k # op.out.index => registers'[k] = registers[k] ]_vars

\* delete %1 after %1 and %2 were both loaded
C16_Witness ==
    /\ Dispatched(OPCODE_DELETE)
    /\ text[1] = E_encode(E(OPCODE_LUI, make_local(1), U64(0, 0, 8, 0)))
    /\ text[3] = S_encode(S(OPCODE_DELETE, make_local(1)))
    /\ registers[1] = VoidValue
    /\ registers[2] = Value("Integer_unsigned", U64(0, \hF000, \hFFFF, \hFFFF))

(* C17: dispatching a DIV whose rhs register holds payload 0 ends the      *)
(* execution in a fatal abort, an outcome other than the normal halt, and  *)
(* the out register is not written.                                        *)
DivByZeroDispatched ==
    /\ OpcodeOf(instruction) = OPCODE_DIV
    /\ registers[T_decode(instruction).rhs.index].value = Zero64

C17_DivByZeroAborts ==
    DivByZeroDispatched => ~(pc = "done" /\ LastLine = <<"halted", 0>>)

\* the part that holds: the out register is as the setup left it
C17_Witness ==
    /\ DivByZeroDispatched
    /\ pc = "done"
    /\ text[1] = R_encode(R(OPCODE_ADDIU, make_local(1), make_void, 3))
    /\ text[2] = NOOP
    /\ text[3] = T_encode(T(OPCODE_DIV, make_local(1), make_local(1),
                            make_local(2)))
    /\ registers[1] = Value("Integer_unsigned", FromNat(3))

-----------------------------------------------------------------------------
(* Bytes: what write(2) puts into an image and read(2) takes out of it.    *)

\* the k little-endian bytes of n (n below 2^31)
LE(n, k) ==
    [j \in 1..k |->
        IF j <= 3 THEN (n \div (256 ^ (j - 1))) % 256
        ELSE IF j = 4 THEN n \div 16777216
        ELSE 0]

\* the eight bytes of an instruction word in memory
WordBytes(w) ==
    << w[1] % 256, w[1] \div 256, w[2] % 256, w[2] \div 256,
       w[3] % 256, w[3] \div 256, w[4] % 256, w[4] \div 256 >>

RECURSIVE TextBytes(_)
TextBytes(t) == IF t = <<>> THEN <<>> ELSE WordBytes(Head(t)) \o TextBytes(Tail(t))

\* byte j (from 1) of a buffer whose memory was zero before bytes were read
\* into it
ByteAt(bytes, j) == IF j <= Len(bytes) THEN bytes[j] ELSE 0

\* word k (from 1) of that buffer
WordAt(bytes, k) ==
    LET at(j) == ByteAt(bytes, 8 * (k - 1) + j)
    IN  U64(at(1) + 256 * at(2), at(3) + 256 * at(4),
            at(5) + 256 * at(6), at(7) + 256 * at(8))

\* the characters of the strings the tools handle
Chars ==
    [ interp |-> <<118, 105, 117, 97, 45, 118, 109>>,
      comment |-> <<48, 46, 53, 46, 48>>,
      source_path |-> <<120, 46, 97, 115, 109>>,
      a |-> <<97>>, b |-> <<98>>, c |-> <<99>>, d |-> <<100>>,
      viua_magic |-> <<46, 118, 105, 117, 97, 46, 109, 97, 103, 105, 99>>,
      dot_interp |-> <<46, 105, 110, 116, 101, 114, 112>>,
      rel |-> <<46, 114, 101, 108>>,
      text |-> <<46, 116, 101, 120, 116>>,
      rodata |-> <<46, 114, 111, 100, 97, 116, 97>>,
      dot_comment |-> <<46, 99, 111, 109, 109, 101, 110, 116>>,
      symtab |-> <<46, 115, 121, 109, 116, 97, 98>>,
      strtab |-> <<46, 115, 116, 114, 116, 97, 98>>,
      shstrtab |-> <<46, 115, 104, 115, 116, 114, 116, 97, 98>>,
      hello |-> <<104, 105, 92, 110>> ]

-----------------------------------------------------------------------------
(* The assembler: new/src/tools/exec/asm.cpp. Its lexer, parser and the    *)
(* viua::libs::stage helpers are library code outside these sources.       *)

\* ast::Fn_def and ast::Label_def, as the parser hands them over
Fn_def(name, attrs, instructions) ==
    [kind |-> "Fn_def", name |-> name, attrs |-> attrs,
     instructions |-> instructions, type |-> "", value |-> <<>>]

Label_def(name, attrs, type, val) ==
    [kind |-> "Label_def", name |-> name, attrs |-> attrs,
     instructions |-> <<>>, type |-> type, value |-> val]

has_attr(node, attr) == attr \in node.attrs

\* ast::Instruction: a format with its operands, or the pseudoinstruction
\* li %1, value
Instruction(format, ins) == [format |-> format, ins |-> ins]

Li(v, signed) == Instruction("li", [value |-> v, is_signed |-> signed])

\* a lexeme of a label's value
Lexeme(token, chars) == [token |-> token, text |-> chars]

\* <elf.h>
STB_LOCAL == 0
STB_GLOBAL == 1
STT_NOTYPE == 0
STT_OBJECT == 1
STT_FUNC == 2
STT_FILE == 4
SHN_UNDEF == 0
SHN_ABS == 65521
ELF64_ST_INFO(bind, type) == bind * 16 + type
ELF64_ST_TYPE(info) == info % 16

Elf64_Sym(st_name, st_info, st_shndx, st_value, st_size) ==
    [st_name |-> st_name, st_info |-> st_info, st_other |-> 0,
     st_shndx |-> st_shndx, st_value |-> st_value, st_size |-> st_size]

\* viua::libs::stage::save_string_to_strtab: the string and its NUL go to
\* the end of the table, the offset of its first byte is returned
save_string_to_strtab(table, chars) ==
    [table |-> table \o chars \o <<0>>, off |-> Len(table)]

\* viua::libs::stage::save_buffer_to_rodata
save_buffer_to_rodata(buf, chars) ==
    [buf |-> buf \o chars, off |-> Len(buf)]

\* viua::libs::stage::record_symbol
record_symbol(name, symbol, table, map) ==
    [symbol_table |-> Append(table, symbol),
     symbol_map |-> (name :> Len(table)) @@ map]

\* main(): the string table starts with a zero byte, the symbol table with
\* the null symbol and the symbol of the source file
InitialStringTable == save_string_to_strtab(<<0>>, Chars.source_path).table

InitialSymbolTable ==
    << Elf64_Sym(0, ELF64_ST_INFO(STB_LOCAL, STT_NOTYPE), SHN_UNDEF, 0, 0),
       Elf64_Sym(save_string_to_strtab(<<0>>, Chars.source_path).off,
                 ELF64_ST_INFO(STB_LOCAL, STT_FILE), SHN_ABS, 0, 0) >>

\* what the stages pass along
Tables(strtab, symtab, symmap) ==
    [string_table |-> strtab, symbol_table |-> symtab, symbol_map |-> symmap]

\* stage::load_function_labels, from node k on
RECURSIVE load_function_labels(_, _, _)
load_function_labels(ns, k, tables) ==
    IF k > Len(ns) THEN tables
    ELSE IF ns[k].kind # "Fn_def" THEN load_function_labels(ns, k + 1, tables)
    ELSE LET saved == save_string_to_strtab(tables.string_table,
                                            Chars[ns[k].name])
             symbol == Elf64_Sym(saved.off,
                                 ELF64_ST_INFO(STB_GLOBAL, STT_FUNC), 0, 0, 0)
             recorded == record_symbol(ns[k].name, symbol,
                                       tables.symbol_table, tables.symbol_map)
         IN  load_function_labels(ns, k + 1,
                Tables(saved.table, recorded.symbol_table,
                       recorded.symbol_map))

\* viua::support::string::unescape
RECURSIVE unescape(_)
unescape(chars) ==
    IF chars = <<>> THEN <<>>
    ELSE IF Head(chars) = 92 /\ Len(chars) >= 2
    THEN << (IF chars[2] = 110 THEN 10 ELSE chars[2]) >>
         \o unescape(Tail(Tail(chars)))
    ELSE <<Head(chars)>> \o unescape(Tail(chars))

\* ston<size_t>: the number a run of decimal digits stands for
RECURSIVE ston(_)
ston(chars) ==
    IF chars = <<>> THEN 0
    ELSE 10 * ston(SubSeq(chars, 1, Len(chars) - 1)) + (chars[Len(chars)] - 48)

RECURSIVE Repeated(_, _)
Repeated(chars, x) == IF x = 0 THEN <<>> ELSE chars \o Repeated(chars, x - 1)

\* the loop over the lexemes of a string label's value, from lexeme idx
\* (counted from 0) on: the string built, or the error that ends it
RECURSIVE string_value(_, _, _)
string_value(val, idx, s) ==
    IF idx >= Len(val) THEN [error |-> "", s |-> s]
    ELSE LET each == val[idx + 1]
         IN  IF each.token = "LITERAL_STRING"
             THEN string_value(val, idx + 1,
                    s \o unescape(SubSeq(each.text, 2, Len(each.text) - 1)))
             ELSE IF each.token = "RA_PTR_DEREF"
             THEN IF idx + 1 >= Len(val)
                  THEN [error |-> "out_of_range", s |-> s]
                  ELSE IF val[idx + 2].token # "LITERAL_INTEGER"
                  THEN (IF idx + 1 < 2
                        THEN [error |-> "out_of_range", s |-> s]
                        ELSE [error |-> "Invalid_operand", s |-> s])
                  ELSE string_value(val, idx + 2,
                                    Repeated(s, ston(val[idx + 2].text)))
             ELSE string_value(val, idx + 1, s)

\* what load_value_labels passes along
Labels(rodata, tables, error) ==
    [rodata_buf |-> rodata, tables |-> tables, error |-> error]

\* a label's bytes go to .rodata and its symbol is recorded
label_recorded(node, chars, rodata, tables) ==
    LET value_off == save_buffer_to_rodata(rodata, chars)
        name_off == save_string_to_strtab(tables.string_table,
                                          Chars[node.name])
        symbol == Elf64_Sym(name_off.off,
                            ELF64_ST_INFO(STB_GLOBAL, STT_OBJECT), 0,
                            value_off.off, Len(chars))
        recorded == record_symbol(node.name, symbol, tables.symbol_table,
                                  tables.symbol_map)
    IN  Labels(value_off.buf,
               Tables(name_off.table, recorded.symbol_table,
                      recorded.symbol_map),
               "")

\* stage::load_value_labels, from node k on. An extern label records its
\* symbol and returns from the function; an error exits the assembler.
RECURSIVE load_value_labels(_, _, _, _)
load_value_labels(ns, k, rodata, tables) ==
    IF k > Len(ns) THEN Labels(rodata, tables, "")
    ELSE IF ns[k].kind # "Label_def"
    THEN load_value_labels(ns, k + 1, rodata, tables)
    ELSE IF has_attr(ns[k], "extern")
    THEN LET name_off == save_string_to_strtab(tables.string_table,
                                               Chars[ns[k].name])
             symbol == Elf64_Sym(name_off.off,
                                 ELF64_ST_INFO(STB_GLOBAL, STT_OBJECT),
                                 0, 0, 0)
             recorded == record_symbol(ns[k].name, symbol,
                                       tables.symbol_table, tables.symbol_map)
         IN  Labels(rodata,
                    Tables(name_off.table, recorded.symbol_table,
                           recorded.symbol_map),
                    "")
    ELSE IF ns[k].type = "string"
    THEN LET built == string_value(ns[k].value, 0, <<>>)
         IN  IF built.error # ""
             THEN Labels(rodata, tables, built.error)
             ELSE LET done == label_recorded(ns[k], built.s, rodata, tables)
                  IN  load_value_labels(ns, k + 1, done.rodata_buf,
                                        done.tables)
    ELSE IF ns[k].type = "atom"
    THEN LET done == label_recorded(ns[k], ns[k].value[1].text, rodata,
                                    tables)
         IN  load_value_labels(ns, k + 1, done.rodata_buf, done.tables)
    ELSE load_value_labels(ns, k + 1, rodata, tables)

\* word & FORMAT_MASK, as the name of the format
FormatOf(raw) ==
    LET format == BitAnd(BitAnd(raw[1], OPCODE_MASK, 16), FORMAT_MASK, 16)
    IN  CASE format = FORMAT_N -> "N"
          [] format = FORMAT_T -> "T"
          [] format = FORMAT_D -> "D"
          [] format = FORMAT_S -> "S"
          [] format = FORMAT_F -> "F"
          [] format = FORMAT_E -> "E"
          [] format = FORMAT_R -> "R"

\* viua::libs::stage::expand_pseudoinstructions: li becomes the
\* instructions op_li() gives for its value, anything else stays
RECURSIVE expand_pseudoinstructions(_)
expand_pseudoinstructions(instructions) ==
    IF instructions = <<>> THEN <<>>
    ELSE LET insn == Head(instructions)
             words == IF insn.ins.is_signed
                      THEN op_li_signed(<<>>, insn.ins.value)
                      ELSE op_li_unsigned(<<>>, insn.ins.value)
         IN  (IF insn.format = "li"
              THEN [k \in 1..Len(words) |->
                        Instruction(FormatOf(words[k]),
                                    decode(FormatOf(words[k]), words[k]))]
              ELSE <<insn>>)
             \o expand_pseudoinstructions(Tail(instructions))

\* stage::cook_pseudoinstructions: every function's instructions expanded
cook_pseudoinstructions(ns) ==
    [k \in 1..Len(ns) |->
        IF ns[k].kind # "Fn_def" THEN ns[k]
        ELSE [ns[k] EXCEPT
                !.instructions = expand_pseudoinstructions(ns[k].instructions)]]

\* find_entry_point that lets the last entry point win
RECURSIVE find_entry_point_last_wins(_, _, _)
find_entry_point_last_wins(ns, k, entry) ==
    IF k > Len(ns) THEN [entry_point_fn |-> entry, error |-> nullopt]
    ELSE IF has_attr(ns[k], "entry_point")
    THEN find_entry_point_last_wins(ns, k + 1, optional(ns[k].name))
    ELSE find_entry_point_last_wins(ns, k + 1, entry)

\* stage::find_entry_point, from node k on with the entry point found so
\* far: the name of the entry function, or the error it exits with
RECURSIVE find_entry_point(_, _, _)
find_entry_point(ns, k, entry) ==
    IF k > Len(ns) THEN [entry_point_fn |-> entry, error |-> nullopt]
    ELSE IF has_attr(ns[k], "entry_point")
    THEN IF entry.has_value
         THEN [entry_point_fn |-> entry,
               error |-> optional([cause |-> "Duplicated_entry_point",
                                   node |-> k,
                                   name |-> ns[k].name,
                                   note |-> entry.value])]
         ELSE find_entry_point(ns, k + 1, optional(ns[k].name))
    ELSE find_entry_point(ns, k + 1, entry)

\* viua::libs::stage::emit_instruction
emit_instruction(insn) == encode(insn.format, insn.ins)

\* the sum of the instruction counts of the function definitions
RECURSIVE instructions_count(_)
instructions_count(ns) ==
    IF ns = <<>> THEN 0
    ELSE (IF Head(ns).kind = "Fn_def" THEN Len(Head(ns).instructions) ELSE 0)
         + instructions_count(Tail(ns))

\* the loop of ::emit_bytecode with the word index taken for the address
RECURSIVE emit_bytecode_from_word_index(_, _, _, _, _, _)
emit_bytecode_from_word_index(ns, k, t, at, symtab, symmap) ==
    IF k > Len(ns) THEN [text |-> t, symbol_table |-> symtab]
    ELSE IF ns[k].kind # "Fn_def"
    THEN emit_bytecode_from_word_index(ns, k + 1, t, at, symtab, symmap)
    ELSE LET fn == ns[k]
             n == Len(fn.instructions)
             sym == symmap[fn.name] + 1
             symtab2 == IF has_attr(fn, "extern") THEN symtab
                        ELSE [symtab EXCEPT ![sym].st_value = at,
                                            ![sym].st_size = n * 8]
             t2 == [j \in 1..Len(t) |->
                        IF j > at /\ j <= at + n
                        THEN emit_instruction(fn.instructions[j - at])
                        ELSE t[j]]
         IN  emit_bytecode_from_word_index(ns, k + 1, t2, at + n, symtab2,
                                           symmap)

\* ::emit_bytecode, the loop over the nodes from node k on; at is ip as a
\* word index into text
RECURSIVE emit_bytecode_from(_, _, _, _, _, _)
emit_bytecode_from(ns, k, t, at, symtab, symmap) ==
    IF k > Len(ns) THEN [text |-> t, symbol_table |-> symtab]
    ELSE IF ns[k].kind # "Fn_def"
    THEN emit_bytecode_from(ns, k + 1, t, at, symtab, symmap)
    ELSE LET fn == ns[k]
             n == Len(fn.instructions)
             sym == symmap[fn.name] + 1
             symtab2 == IF has_attr(fn, "extern") THEN symtab
                        ELSE [symtab EXCEPT ![sym].st_value = at * 8,
                                            ![sym].st_size = n * 8]
             t2 == [j \in 1..Len(t) |->
                        IF j > at /\ j <= at + n
                        THEN emit_instruction(fn.instructions[j - at])
                        ELSE t[j]]
         IN  emit_bytecode_from(ns, k + 1, t2, at + n, symtab2, symmap)

\* ::emit_bytecode with the functions written from word 0 on
emit_bytecode_from_word_0(ns, symtab, symmap) ==
    LET ops_count == 1 + instructions_count(ns)
        t == [j \in 1..ops_count |->
                IF j = 1 THEN N_encode(N(OPCODE_HALT)) ELSE Zero64]
    IN  emit_bytecode_from(ns, 1, t, 0, symtab, symmap)

\* ::emit_bytecode: text is sized, HALT goes to word 0, then the functions
emit_bytecode(ns, symtab, symmap) ==
    LET ops_count == 1 + instructions_count(ns)
        t == [j \in 1..ops_count |->
                IF j = 1 THEN N_encode(N(OPCODE_HALT)) ELSE Zero64]
    IN  emit_bytecode_from(ns, 1, t, 1, symtab, symmap)

\* viua::arch::ops::OPCODE::ATOM and viua::arch::elf::R_VIUA
OPCODE_ATOM == FORMAT_S + 3
R_VIUA_JUMP_SLOT == 1
R_VIUA_OBJECT == 2

Elf64_Rel(r_offset, sym, type) ==
    [r_offset |-> r_offset, r_sym |-> sym, r_type |-> type]

\* the symbol index taken from the word before the instruction alone
symtab_entry_index_of_upper(t, idx) ==
    LET hi == F_decode(t[idx - 1]).immediate
    IN  U64(hi[1], hi[2], 0, 0)

\* symtab_entry_index of stage::make_reloc_table for the instruction at word
\* index idx (counted from 0): static_cast<uint32_t>(hi | lo)
symtab_entry_index(t, idx) ==
    LET hi == Shl64(F_decode(t[idx - 1]).immediate, 32)
        lo == F_decode(t[idx]).immediate
        wide == Or64(hi, lo)
    IN  U64(wide[1], wide[2], 0, 0)

\* stage::make_reloc_table, from word index idx (counted from 0) on: the
\* table, or out_of_range thrown by text.at(idx - 2)
RECURSIVE make_reloc_table(_, _, _)
make_reloc_table(t, idx, table) ==
    IF idx >= Len(t) THEN [reloc_table |-> table, error |-> ""]
    ELSE LET op == BitAnd(t[idx + 1][1], OPCODE_MASK, 16)
         IN  IF op = OPCODE_CALL \/ op = OPCODE_ATOM
             THEN IF idx < 2
                  THEN [reloc_table |-> table, error |-> "out_of_range"]
                  ELSE make_reloc_table(t, idx + 1,
                        Append(table,
                               Elf64_Rel((idx - 2) * 8,
                                         symtab_entry_index(t, idx),
                                         IF op = OPCODE_CALL
                                         THEN R_VIUA_JUMP_SLOT
                                         ELSE R_VIUA_OBJECT)))
             ELSE make_reloc_table(t, idx + 1, table)

-----------------------------------------------------------------------------
(* stage::emit_elf: the image file. The file is its header, its program    *)
(* and section headers, and the bytes written after them.                  *)

\* <elf.h>
PT_NULL == 0
PT_LOAD == 1
PT_INTERP == 3
PF_X == 1
PF_R == 4
SHT_NULL == 0
SHT_PROGBITS == 1
SHT_SYMTAB == 2
SHT_STRTAB == 3
SHT_NOBITS == 8
SHT_REL == 9
SHF_ALLOC == 2
SHF_EXECINSTR == 4
SHF_STRINGS == 32
SHF_INFO_LINK == 64
ET_REL == 1
ET_EXEC == 2
SIZEOF_Elf64_Ehdr == 64
SIZEOF_Elf64_Phdr == 56
SIZEOF_Elf64_Shdr == 64
SIZEOF_Elf64_Sym == 24
SIZEOF_Elf64_Rel == 16
SIZEOF_instruction_type == 8
OFFSETOF_p_offset == 8

\* a program header; magic says that p_offset holds the eight bytes of
\* VIUA_MAGIC instead of an offset
Elf64_Phdr(p_type, p_offset, p_filesz, p_flags, magic) ==
    [present |-> TRUE, p_type |-> p_type, p_offset |-> p_offset,
     p_filesz |-> p_filesz, p_flags |-> p_flags, magic |-> magic]

\* std::nullopt in the place of a program header
NoSegment ==
    [present |-> FALSE, p_type |-> PT_NULL, p_offset |-> 0, p_filesz |-> 0,
     p_flags |-> 0, magic |-> FALSE]

Elf64_Shdr(name, sh_name, sh_type, sh_offset, sh_size, sh_flags, sh_entsize) ==
    [name |-> name, sh_name |-> sh_name, sh_type |-> sh_type,
     sh_offset |-> sh_offset, sh_size |-> sh_size, sh_flags |-> sh_flags,
     sh_link |-> 0, sh_info |-> 0, sh_entsize |-> sh_entsize]

Header_pair(segment, section) == [segment |-> segment, section |-> section]

\* the names save_shstr_entry() is called with, in the order of the calls
SectionNames(relocs) ==
    << "viua_magic", "dot_interp" >>
    \o (IF relocs.has_value THEN << "rel" >> ELSE << >>)
    \o << "text", "rodata", "dot_comment", "symtab", "strtab", "shstrtab" >>

\* shstr after the first k names were saved
RECURSIVE shstr_after(_, _)
shstr_after(names, k) ==
    IF k = 0 THEN <<0>>
    ELSE shstr_after(names, k - 1) \o Chars[names[k]] \o <<0>>

\* what save_shstr_entry() returns for a name
saved_at(names, name) ==
    LET k == CHOOSE j \in 1..Len(names) : names[j] = name
    IN  Len(shstr_after(names, k - 1))

\* the loop that lays the payloads out, from pair k on
RECURSIVE layout(_, _, _, _, _)
layout(elf_headers, k, elf_size, offset_accumulator, text_offset) ==
    IF k > Len(elf_headers)
    THEN [elf_headers |-> elf_headers, text_offset |-> text_offset]
    ELSE LET segment == elf_headers[k].segment
             section == elf_headers[k].section
             placed == segment.present /\ segment.p_type # PT_NULL
             first_text ==
                IF placed /\ segment.p_flags = PF_R + PF_X
                   /\ ~text_offset.has_value
                THEN optional(offset_accumulator)
                ELSE text_offset
             segment2 ==
                IF placed
                THEN [segment EXCEPT !.p_offset = elf_size + offset_accumulator]
                ELSE segment
             skipped == section.sh_type \in {SHT_NULL, SHT_NOBITS}
             section2 ==
                IF skipped THEN section
                ELSE [section EXCEPT !.sh_offset = elf_size + offset_accumulator]
         IN  layout([elf_headers EXCEPT ![k] = Header_pair(segment2, section2)],
                    k + 1, elf_size,
                    IF skipped THEN offset_accumulator
                    ELSE offset_accumulator + section.sh_size,
                    first_text)

\* the bytes of an Elf64_Sym and of an Elf64_Rel
SymBytes(sym) ==
    LE(sym.st_name, 4) \o <<sym.st_info, sym.st_other>> \o LE(sym.st_shndx, 2)
    \o LE(sym.st_value, 8) \o LE(sym.st_size, 8)

RelBytes(rel) ==
    LE(rel.r_offset, 8) \o LE(rel.r_type, 4)
    \o << rel.r_sym[1] % 256, rel.r_sym[1] \div 256,
          rel.r_sym[2] % 256, rel.r_sym[2] \div 256 >>

RECURSIVE Flattened(_)
Flattened(chunks) ==
    IF chunks = <<>> THEN <<>> ELSE Head(chunks) \o Flattened(Tail(chunks))

\* an image file
File(elf_header, pheaders, sheaders, data) ==
    [has_value |-> TRUE, elf_header |-> elf_header, pheaders |-> pheaders,
     sheaders |-> sheaders, data |-> data]

Elf64_Ehdr(e_type, e_entry, e_phoff, e_phnum, e_shoff, e_shnum, e_shstrndx) ==
    [e_type |-> e_type, e_entry |-> e_entry, e_phoff |-> e_phoff,
     e_phnum |-> e_phnum, e_shoff |-> e_shoff, e_shnum |-> e_shnum,
     e_shstrndx |-> e_shstrndx]

\* e_entry counted from the first payload byte instead of the file's start
entry_address_in_payloads(entry_point_fn_value, text_offset, elf_size) ==
    IF entry_point_fn_value.has_value
    THEN text_offset.value + entry_point_fn_value.value
    ELSE 0

\* elf_header.e_entry of stage::emit_elf
entry_address(entry_point_fn_value, text_offset, elf_size) ==
    IF entry_point_fn_value.has_value
    THEN text_offset.value + entry_point_fn_value.value + elf_size
    ELSE 0

\* stage::emit_elf: the file it writes and the symbol table it leaves
emit_elf(as_executable, entry_point, t, relocs, rodata, strtab, symtab) ==
    LET names == SectionNames(relocs)
        text_size == Len(t) * SIZEOF_instruction_type
        interp_size == Len(Chars.interp) + 1
        comment_size == Len(Chars.comment) + 1
        rel_section_ndx == 3
        text_section_ndx == IF relocs.has_value THEN 4 ELSE 3
        rodata_section_ndx == text_section_ndx + 1
        symtab_section_ndx == text_section_ndx + 3
        strtab_section_ndx == text_section_ndx + 4
        rel_pair ==
            Header_pair(NoSegment,
                [Elf64_Shdr("rel", saved_at(names, "rel"), SHT_REL, 0,
                            Len(relocs.value) * SIZEOF_Elf64_Rel,
                            SHF_INFO_LINK, SIZEOF_Elf64_Rel)
                 EXCEPT !.sh_link = symtab_section_ndx,
                        !.sh_info = text_section_ndx])
        built ==
            << Header_pair(Elf64_Phdr(PT_NULL, 0, 0, 0, FALSE),
                           Elf64_Shdr("", 0, SHT_NULL, 0, 0, 0, 0)),
               Header_pair(Elf64_Phdr(PT_NULL, 0, 8, 0, TRUE),
                           Elf64_Shdr("viua_magic",
                                      saved_at(names, "viua_magic"),
                                      SHT_NOBITS,
                                      SIZEOF_Elf64_Ehdr + OFFSETOF_p_offset,
                                      8, 0, 0)),
               Header_pair(Elf64_Phdr(PT_INTERP, 0, interp_size, PF_R, FALSE),
                           Elf64_Shdr("dot_interp",
                                      saved_at(names, "dot_interp"),
                                      SHT_PROGBITS, 0, interp_size, 0, 0)) >>
            \o (IF relocs.has_value THEN <<rel_pair>> ELSE << >>)
            \o
            << Header_pair(Elf64_Phdr(PT_LOAD, 0, text_size, PF_R + PF_X,
                                      FALSE),
                           Elf64_Shdr("text", saved_at(names, "text"),
                                      SHT_PROGBITS, 0, text_size,
                                      SHF_ALLOC + SHF_EXECINSTR, 0)),
               Header_pair(Elf64_Phdr(PT_LOAD, 0, Len(rodata), PF_R, FALSE),
                           Elf64_Shdr("rodata", saved_at(names, "rodata"),
                                      SHT_PROGBITS, 0, Len(rodata),
                                      SHF_ALLOC, 0)),
               Header_pair(NoSegment,
                           Elf64_Shdr("dot_comment",
                                      saved_at(names, "dot_comment"),
                                      SHT_PROGBITS, 0, comment_size, 0, 0)),
               Header_pair(NoSegment,
                           [Elf64_Shdr("symtab", saved_at(names, "symtab"),
                                       SHT_SYMTAB, 0,
                                       Len(symtab) * SIZEOF_Elf64_Sym, 0,
                                       SIZEOF_Elf64_Sym)
                            EXCEPT !.sh_link = strtab_section_ndx]),
               Header_pair(NoSegment,
                           Elf64_Shdr("strtab", saved_at(names, "strtab"),
                                      SHT_STRTAB, 0, Len(strtab),
                                      SHF_STRINGS, 0)),
               Header_pair(NoSegment,
                           Elf64_Shdr("shstrtab", saved_at(names, "shstrtab"),
                                      SHT_STRTAB, 0,
                                      Len(shstr_after(names, Len(names))),
                                      SHF_STRINGS, 0)) >>
        elf_pheaders == Cardinality({k \in 1..Len(built) :
                                        built[k].segment.present})
        elf_sheaders == Len(built)
        elf_size == SIZEOF_Elf64_Ehdr + elf_pheaders * SIZEOF_Elf64_Phdr
                    + elf_sheaders * SIZEOF_Elf64_Shdr
        laid == layout(built, 1, elf_size, 0, nullopt)
        elf_headers == laid.elf_headers
        e_entry == entry_address(entry_point, laid.text_offset, elf_size)
        patched == [k \in 1..Len(symtab) |->
                        IF ELF64_ST_TYPE(symtab[k].st_info) = STT_FUNC
                        THEN [symtab[k] EXCEPT !.st_shndx = text_section_ndx]
                        ELSE IF ELF64_ST_TYPE(symtab[k].st_info) = STT_OBJECT
                        THEN [symtab[k] EXCEPT !.st_shndx = rodata_section_ndx]
                        ELSE symtab[k]]
        data == Chars.interp \o <<0>>
                \o (IF relocs.has_value
                    THEN Flattened([k \in 1..Len(relocs.value) |->
                                        RelBytes(relocs.value[k])])
                    ELSE << >>)
                \o TextBytes(t)
                \o rodata
                \o Chars.comment \o <<0>>
                \o Flattened([k \in 1..Len(patched) |-> SymBytes(patched[k])])
                \o strtab
                \o shstr_after(names, Len(names))
    IN  [a_out |->
            File(Elf64_Ehdr(IF as_executable THEN ET_EXEC ELSE ET_REL,
                            e_entry,
                            SIZEOF_Elf64_Ehdr, elf_pheaders,
                            SIZEOF_Elf64_Ehdr + elf_pheaders * SIZEOF_Elf64_Phdr,
                            elf_sheaders, elf_sheaders - 1),
                 SelectSeq([k \in 1..Len(elf_headers) |->
                                elf_headers[k].segment],
                           LAMBDA segment : segment.present),
                 [k \in 1..Len(elf_headers) |-> elf_headers[k].section],
                 data),
         symbol_table |-> patched]

\* where the bytes written after the headers begin
ElfSize(file) ==
    SIZEOF_Elf64_Ehdr + Len(file.pheaders) * SIZEOF_Elf64_Phdr
    + Len(file.sheaders) * SIZEOF_Elf64_Shdr

\* lseek(fd, offset, SEEK_SET) and read(fd, buf, count), for an offset
\* behind the headers: the bytes read, fewer than count at the end of file
pread(file, offset, count) ==
    LET from == offset - ElfSize(file)
        last == IF from + count < Len(file.data) THEN from + count
                ELSE Len(file.data)
    IN  SubSeq(file.data, from + 1, last)

-----------------------------------------------------------------------------
(* The sample emitter: main() of new/src/tools/asm.cpp, run without        *)
(* operands.                                                               *)

\* the sample program
SampleText ==
    LET delete_temporaries ==
            << S_encode(S(Greedy(OPCODE_DELETE), make_local(2))),
               S_encode(S(OPCODE_DELETE, make_local(3))) >>
        ebreak == FromNat(OPCODE_EBREAK)
        halt == FromNat(OPCODE_HALT)
        first == op_li_unsigned(<<>>, U64(\hBEEF, \hDEAD, \hBEEF, \hDEAD))
                 \o delete_temporaries \o <<ebreak>>
        second == op_li_signed(first, U64(42, 0, 0, 0)) \o <<ebreak>>
    IN  op_li_signed(second, U64(\hFFFF, \hFFFF, \hFFFF, \hFFFF))
        \o delete_temporaries \o <<ebreak, halt>>

\* ./a.out: three program headers, no section headers, the interpreter
\* string and the text
SampleFile(t) ==
    LET text_size == Len(t) * SIZEOF_instruction_type
        text_offset == SIZEOF_Elf64_Ehdr + 3 * SIZEOF_Elf64_Phdr
                       + (Len(Chars.interp) + 1)
    IN  File(Elf64_Ehdr(ET_EXEC, text_offset, SIZEOF_Elf64_Ehdr, 3, 0, 0, 0),
             << Elf64_Phdr(PT_NULL, 0, 0, 0, TRUE),
                Elf64_Phdr(PT_INTERP,
                           SIZEOF_Elf64_Ehdr + 3 * SIZEOF_Elf64_Phdr,
                           Len(Chars.interp) + 1, PF_R, FALSE),
                Elf64_Phdr(PT_LOAD, text_offset, text_size, PF_R + PF_X,
                           FALSE) >>,
             << >>,
             Chars.interp \o <<0>> \o TextBytes(t))

-----------------------------------------------------------------------------
(* The assembler run on a source, or the sample emitter, and then the VM   *)
(* of new/src/tools/vm.cpp run on the file written.                        *)

MaxNodes == 2

\* std::array<viua::arch::instruction_type, 128> text
TextCapacity == 128

run_vars == <<text, beyond, registers, ip, i, ip_before, greedy, bundle_ip, instruction, stderr, nops>>

li_vars == <<value, is_signed, li_parts, codec>>

\* the names of the top-level nodes, by position
NodeNames == <<"a", "b", "c", "d">>

\* function bodies: halt, and li %1, 42; ebreak; halt
Bodies ==
    { << Instruction("N", N(OPCODE_HALT)) >>,
      << Li(U64(42, 0, 0, 0), TRUE),
         Instruction("N", N(OPCODE_EBREAK)),
         Instruction("N", N(OPCODE_HALT)) >> }

\* what a top-level node may be: a function, with the entry_point
\* attribute or without, a string label, an extern label
NodeChoices(name) ==
    { Fn_def(name, attrs, body) :
        attrs \in {{}, {"entry_point"}}, body \in Bodies }
    \cup { Label_def(name, {}, "string",
                     << Lexeme("LITERAL_STRING",
                               <<34>> \o Chars.hello \o <<34>>) >>),
           Label_def(name, {"extern"}, "string", << >>) }

Sources ==
    UNION { { ns \in [1..n -> UNION {NodeChoices(NodeNames[k]) : k \in 1..n}] :
                \A k \in 1..n : ns[k].name = NodeNames[k] } :
            n \in 0..MaxNodes }

\* viua::libs::stage::display_error_and_exit: the error is reported and the
\* process exits with status 1
display_error_and_exit(e) ==
    /\ diagnostic' = optional(e)
    /\ exit_status' = optional(1)
    /\ pc' = "exit"

\* viua::libs::errors::compile_time::Error: its cause, or for an error a
\* library function threw the name of that function
Error(cause) == [cause |-> cause]

\* the functions among the nodes, and whether any has an instruction
Functions(ns) == {k \in 1..Len(ns) : ns[k].kind = "Fn_def"}

HasInstructions(ns) == \E k \in Functions(ns) : ns[k].instructions # <<>>

\* viua::libs::lexer::stage::lexical_analysis: the lexemes, or the error
\* reported for a source text that is no sequence of lexemes
LexicalAnalysis ==
    /\ pc = "lexical_analysis"
    /\ \/ /\ pc' = "syntactical_analysis"
          /\ UNCHANGED <<diagnostic, exit_status>>
       \/ display_error_and_exit(Error("lexical_analysis"))
    /\ UNCHANGED <<run_vars, li_vars, nodes, rodata_buf, string_table,
                   symbol_table, symbol_map, entry_point_fn, asm_text,
                   reloc_table, a_out, program_header, core_vars>>

\* stage::syntactical_analysis: the nodes, or the error parse() threw
SyntacticalAnalysis ==
    /\ pc = "syntactical_analysis"
    /\ \/ /\ pc' = "load_function_labels"
          /\ UNCHANGED <<diagnostic, exit_status>>
       \/ display_error_and_exit(Error("parse"))
    /\ UNCHANGED <<run_vars, li_vars, nodes, rodata_buf, string_table,
                   symbol_table, symbol_map, entry_point_fn, asm_text,
                   reloc_table, a_out, program_header, core_vars>>

\* stage::load_function_labels
LoadFunctionLabels ==
    /\ pc = "load_function_labels"
    /\ LET loaded == load_function_labels(nodes, 1,
                        Tables(string_table, symbol_table, symbol_map))
       IN  /\ string_table' = loaded.string_table
           /\ symbol_table' = loaded.symbol_table
           /\ symbol_map' = loaded.symbol_map
    /\ pc' = "load_value_labels"
    /\ UNCHANGED <<run_vars, li_vars, nodes, rodata_buf, entry_point_fn,
                   asm_text, reloc_table, diagnostic, a_out, exit_status,
                   program_header, core_vars>>

\* stage::load_value_labels; std::out_of_range is caught by nobody
LoadValueLabels ==
    /\ pc = "load_value_labels"
    /\ LET loaded == load_value_labels(nodes, 1, rodata_buf,
                        Tables(string_table, symbol_table, symbol_map))
       IN  CASE loaded.error = "" ->
                /\ rodata_buf' = loaded.rodata_buf
                /\ string_table' = loaded.tables.string_table
                /\ symbol_table' = loaded.tables.symbol_table
                /\ symbol_map' = loaded.tables.symbol_map
                /\ pc' = "cook_long_immediates"
                /\ UNCHANGED <<diagnostic, exit_status>>
             [] loaded.error = "out_of_range" ->
                /\ pc' = "abort"
                /\ UNCHANGED <<rodata_buf, string_table, symbol_table,
                               symbol_map, diagnostic, exit_status>>
             [] OTHER ->
                /\ display_error_and_exit(Error(loaded.error))
                /\ UNCHANGED <<rodata_buf, string_table, symbol_table,
                               symbol_map>>
    /\ UNCHANGED <<run_vars, li_vars, nodes, entry_point_fn, asm_text,
                   reloc_table, a_out, program_header, core_vars>>

\* stage::cook_long_immediates, which leaves an instruction without a label
\* operand as it is or reports the error the library threw for it, and the
\* closing zero byte main() gives the string table
CookLongImmediates ==
    /\ pc = "cook_long_immediates"
    /\ \/ /\ string_table' = Append(string_table, 0)
          /\ pc' = "cook_pseudoinstructions"
          /\ UNCHANGED <<diagnostic, exit_status>>
       \/ /\ HasInstructions(nodes)
          /\ display_error_and_exit(Error("cook_long_immediates"))
          /\ UNCHANGED string_table
    /\ UNCHANGED <<run_vars, li_vars, nodes, rodata_buf, symbol_table,
                   symbol_map, entry_point_fn, asm_text, reloc_table,
                   a_out, program_header, core_vars>>

\* stage::cook_pseudoinstructions
CookPseudoinstructions ==
    /\ pc = "cook_pseudoinstructions"
    /\ \/ /\ nodes' = cook_pseudoinstructions(nodes)
          /\ pc' = "find_entry_point"
          /\ UNCHANGED <<diagnostic, exit_status>>
       \/ /\ Functions(nodes) # {}
          /\ display_error_and_exit(Error("expand_pseudoinstructions"))
          /\ UNCHANGED nodes
    /\ UNCHANGED <<run_vars, li_vars, rodata_buf, string_table, symbol_table,
                   symbol_map, entry_point_fn, asm_text, reloc_table,
                   a_out, program_header, core_vars>>

\* stage::find_entry_point with the error handed on instead of reported
FindEntryPoint_goes_on ==
    /\ pc = "find_entry_point"
    /\ LET found == find_entry_point(nodes, 1, nullopt)
       IN  /\ diagnostic' = found.error
           /\ entry_point_fn' = found.entry_point_fn
           /\ pc' = "emit_bytecode"
           /\ UNCHANGED exit_status
    /\ UNCHANGED <<run_vars, li_vars, nodes, rodata_buf, string_table,
                   symbol_table, symbol_map, asm_text, reloc_table, a_out,
                   program_header, core_vars>>

\* stage::find_entry_point
FindEntryPoint ==
    /\ pc = "find_entry_point"
    /\ LET found == find_entry_point(nodes, 1, nullopt)
       IN  IF found.error.has_value
           THEN /\ display_error_and_exit(found.error.value)
                /\ UNCHANGED entry_point_fn
           ELSE /\ entry_point_fn' = found.entry_point_fn
                /\ pc' = "emit_bytecode"
                /\ UNCHANGED <<diagnostic, exit_status>>
    /\ UNCHANGED <<run_vars, li_vars, nodes, rodata_buf, string_table,
                   symbol_table, symbol_map, asm_text, reloc_table, a_out,
                   program_header, core_vars>>

\* stage::emit_bytecode, or the error emit_instruction threw
EmitBytecode ==
    /\ pc = "emit_bytecode"
    /\ \/ /\ LET emitted == emit_bytecode(nodes, symbol_table, symbol_map)
             IN  /\ asm_text' = emitted.text
                 /\ symbol_table' = emitted.symbol_table
          /\ pc' = "make_reloc_table"
          /\ UNCHANGED <<diagnostic, exit_status>>
       \/ /\ HasInstructions(nodes)
          /\ display_error_and_exit(Error("emit_instruction"))
          /\ UNCHANGED <<asm_text, symbol_table>>
    /\ UNCHANGED <<run_vars, li_vars, nodes, rodata_buf, string_table,
                   symbol_map, entry_point_fn, reloc_table, a_out,
                   program_header, core_vars>>

\* stage::make_reloc_table
MakeRelocTable ==
    /\ pc = "make_reloc_table"
    /\ LET made == make_reloc_table(asm_text, 0, << >>)
       IN  IF made.error = ""
           THEN /\ reloc_table' = made.reloc_table
                /\ pc' = "emit_elf"
           ELSE /\ pc' = "abort"
                /\ UNCHANGED reloc_table
    /\ UNCHANGED <<run_vars, li_vars, nodes, rodata_buf, string_table,
                   symbol_table, symbol_map, entry_point_fn, asm_text,
                   diagnostic, a_out, exit_status, program_header, core_vars>>

\* stage::emit_elf, called by main() with the symbol value of the entry
\* function, if there is one; main() then returns 0
EmitElf ==
    /\ pc = "emit_elf"
    /\ LET entry == IF entry_point_fn.has_value
                    THEN optional(symbol_table[
                            symbol_map[entry_point_fn.value] + 1].st_value)
                    ELSE nullopt
           written == emit_elf(FALSE, entry, asm_text, optional(reloc_table),
                               rodata_buf, string_table, symbol_table)
       IN  /\ a_out' = written.a_out
           /\ symbol_table' = written.symbol_table
    /\ exit_status' = optional(0)
    /\ pc' = "vm_main"
    /\ UNCHANGED <<run_vars, li_vars, nodes, rodata_buf, string_table,
                   symbol_map, entry_point_fn, asm_text, reloc_table,
                   diagnostic, program_header, core_vars>>

\* main() of new/src/tools/asm.cpp without operands
SampleEmit ==
    /\ pc = "sample"
    /\ asm_text' = SampleText
    /\ a_out' = SampleFile(SampleText)
    /\ exit_status' = optional(0)
    /\ pc' = "vm_main"
    /\ UNCHANGED <<run_vars, li_vars, nodes, rodata_buf, string_table,
                   symbol_table, symbol_map, entry_point_fn, reloc_table,
                   diagnostic, program_header, core_vars>>

\* main() of new/src/tools/vm.cpp up to the call of run(): the file header
\* is read, then three program headers one over the other, then p_filesz
\* bytes from p_offset into the zeroed text array. More bytes than the array
\* holds are written behind it.
VmMain ==
    /\ pc = "vm_main"
    /\ Len(a_out.pheaders) >= 3
    /\ LET header == a_out.pheaders[3]
           bytes == pread(a_out, header.p_offset, header.p_filesz)
       IN  /\ header.p_offset >= ElfSize(a_out)
           /\ program_header' = optional(header)
           /\ IF Len(bytes) > TextCapacity * SIZEOF_instruction_type
              THEN /\ pc' = "fault"
                   /\ UNCHANGED text
              ELSE /\ text' = [k \in 1..TextCapacity |-> WordAt(bytes, k)]
                   /\ pc' = "run"
    /\ UNCHANGED <<beyond, registers, ip, i, ip_before, greedy, bundle_ip,
                   instruction, stderr, nops, li_vars, elf_vars, core_vars>>

InitImage ==
    /\ text = <<>>
    /\ InitRun
    /\ value = Zero64
    /\ is_signed = FALSE
    /\ li_parts = to_loading_parts_unsigned(Zero64)
    /\ codec = <<>>
    /\ rodata_buf = <<>>
    /\ symbol_map = <<>>
    /\ entry_point_fn = nullopt
    /\ asm_text = <<>>
    /\ reloc_table = <<>>
    /\ diagnostic = nullopt
    /\ a_out = nullopt
    /\ exit_status = nullopt
    /\ program_header = nullopt
    /\ stack = nullopt
    /\ abort_execution = nullopt
    /\ dispatched = 0
    /\ NoLegacy
    /\ \/ /\ pc = "sample"
          /\ nodes = <<>>
          /\ string_table = <<>>
          /\ symbol_table = <<>>
       \/ /\ pc = "load_function_labels"
          /\ nodes \in Sources
          /\ string_table = InitialStringTable
          /\ symbol_table = InitialSymbolTable

NextImage ==
    \/ LoadFunctionLabels
    \/ LoadValueLabels
    \/ CookLongImmediates
    \/ CookPseudoinstructions
    \/ FindEntryPoint
    \/ EmitBytecode
    \/ MakeRelocTable
    \/ EmitElf
    \/ SampleEmit
    \/ VmMain
    \/ RunWhile
    \/ RunFor
    \/ RunInstruction
    \/ RunReturned
    \/ RunCycleEnd

SpecImage == InitImage /\ [][NextImage]_vars

\* what a top-level node of a source may be, beyond NodeChoices: a function
\* defined elsewhere, a string label with a repetition, one whose repetition
\* count is no integer, an atom label
AsmNodeChoices(name) ==
    NodeChoices(name)
    \cup { Fn_def(name, {"extern"}, << >>),
           Label_def(name, {}, "string",
                     << Lexeme("LITERAL_STRING",
                               <<34>> \o Chars.hello \o <<34>>),
                        Lexeme("RA_PTR_DEREF", <<42>>),
                        Lexeme("LITERAL_INTEGER", <<50>>) >>),
           Label_def(name, {}, "string",
                     << Lexeme("LITERAL_STRING",
                               <<34>> \o Chars.hello \o <<34>>),
                        Lexeme("RA_PTR_DEREF", <<42>>),
                        Lexeme("LITERAL_STRING",
                               <<34>> \o Chars.hello \o <<34>>) >>),
           Label_def(name, {}, "atom",
                     << Lexeme("LITERAL_ATOM", Chars.interp) >>) }

AsmSources ==
    UNION { { ns \in [1..n -> UNION {AsmNodeChoices(NodeNames[k]) : k \in 1..n}] :
                \A k \in 1..n : ns[k].name = NodeNames[k] } :
            n \in 0..MaxNodes }

\* main() of new/src/tools/exec/asm.cpp with the source read and the tables
\* prepared
InitAsm ==
    /\ text = <<>>
    /\ InitRun
    /\ value = Zero64
    /\ is_signed = FALSE
    /\ li_parts = to_loading_parts_unsigned(Zero64)
    /\ codec = <<>>
    /\ rodata_buf = <<>>
    /\ symbol_map = <<>>
    /\ entry_point_fn = nullopt
    /\ asm_text = <<>>
    /\ reloc_table = <<>>
    /\ diagnostic = nullopt
    /\ a_out = nullopt
    /\ exit_status = nullopt
    /\ program_header = nullopt
    /\ stack = nullopt
    /\ abort_execution = nullopt
    /\ dispatched = 0
    /\ NoLegacy
    /\ pc = "lexical_analysis"
    /\ nodes \in AsmSources
    /\ string_table = InitialStringTable
    /\ symbol_table = InitialSymbolTable

NextAsm ==
    \/ LexicalAnalysis
    \/ SyntacticalAnalysis
    \/ LoadFunctionLabels
    \/ LoadValueLabels
    \/ CookLongImmediates
    \/ CookPseudoinstructions
    \/ FindEntryPoint
    \/ EmitBytecode
    \/ MakeRelocTable
    \/ EmitElf

SpecAsm == InitAsm /\ [][NextAsm]_vars

\* the VM has loaded the image and is in run(), or has left it
Running == pc \in {"run", "for", "run_instruction", "returned", "cycle_end", "done"}

\* run_instruction() has dispatched the first instruction of the run and
\* no other yet (ip only grows, so only the first cycle starts at 0)
FirstDispatched ==
    /\ pc \in {"run_instruction", "returned"}
    /\ ip_before = 0
    /\ nops = 1

\* the first program header that is an executable (R+X) LOAD segment
FirstExecutableLoad(file) ==
    LET k == CHOOSE j \in 1..Len(file.pheaders) :
                /\ file.pheaders[j].p_type = PT_LOAD
                /\ file.pheaders[j].p_flags = PF_R + PF_X
                /\ \A h \in 1..(j - 1) :
                        ~(/\ file.pheaders[h].p_type = PT_LOAD
                          /\ file.pheaders[h].p_flags = PF_R + PF_X)
    IN  file.pheaders[k]

\* the first n words of the text array
RECURSIVE Words(_, _)
Words(t, n) == IF n = 0 THEN <<>> ELSE Append(Words(t, n - 1), t[n])

-----------------------------------------------------------------------------
(* C11: for an image with an entry-point function, the first instruction   *)
(* the VM dispatches is the word at that function's .text offset (entry    *)
(* address minus the file offset of .text), not the word at .text offset 0 *)
(* that the assembler reserves.                                            *)
C11_EntersAtEntryPoint ==
    (Running /\ FirstDispatched /\ a_out.elf_header.e_entry # 0) =>
        LET text_offset == FirstExecutableLoad(a_out).p_offset
            entry == (a_out.elf_header.e_entry - text_offset)
                     \div SIZEOF_instruction_type
        IN  instruction = asm_text[entry + 1]

\* the image of the sample emitter: its entry address is the start of .text
C11_Witness ==
    /\ Running
    /\ FirstDispatched
    /\ asm_text = SampleText
    /\ a_out.elf_header.e_entry = FirstExecutableLoad(a_out).p_offset
    /\ instruction = SampleText[1]

(* C12: for every image written by an assembler (stage::emit_elf, and the  *)
(* sample emitter of tools/asm.cpp) the instruction words the VM loads are *)
(* exactly the .text words the assembler emitted: the program header the   *)
(* VM takes as the text segment is the first executable (R+X) LOAD         *)
(* segment, and its offset and file size select the .text payload.         *)
C12_LoadsEmittedText ==
    Running =>
        /\ program_header.value = FirstExecutableLoad(a_out)
        /\ program_header.value.p_filesz
                = Len(asm_text) * SIZEOF_instruction_type
        /\ Words(text, Len(asm_text)) = asm_text

\* the image of the sample emitter is loaded as emitted
C12_Witness ==
    /\ pc = "run"
    /\ stderr = <<>>
    /\ asm_text = SampleText
    /\ program_header.value = FirstExecutableLoad(a_out)
    /\ Words(text, Len(SampleText)) = SampleText

(* C13: the VM refuses to execute an image that has no entry point (entry  *)
(* address zero in the file header): no instruction is dispatched and the  *)
(* run ends in a rejection.                                                *)
C13_RejectsImageWithoutEntry ==
    (Running /\ a_out.elf_header.e_entry = 0) =>
        /\ pc \notin {"run_instruction", "returned"}
        /\ instruction = Zero64
        /\ nops = 0

\* an image without an entry point whose first word has been dispatched
C13_Witness ==
    /\ Running
    /\ FirstDispatched
    /\ a_out.elf_header.e_entry = 0
    /\ entry_point_fn = nullopt

(* C20: find_entry_point over any list of top-level nodes: if two or more  *)
(* nodes bear the entry_point attribute, assembly stops with a fatal       *)
(* Duplicated_entry_point error at the second such node; if exactly one    *)
(* bears it, the name of that function is returned; if none does, no entry *)
(* point is returned.                                                      *)
EntryPoints == {k \in 1..Len(nodes) : "entry_point" \in nodes[k].attrs}

-----------------------------------------------------------------------------
(* AA, allocate-in-arena: execute(AA, Stack&, ip) of                       *)
(* new/src/vm/ins/aa.cpp, run on a process stack.                          *)

MaxAllocations == 2

\* a < b for 64-bit unsigned values
Less64(a, b) ==
    \E k \in 1..4 :
        /\ a[k] < b[k]
        /\ \A j \in (k + 1)..4 : a[j] = b[j]

\* a + b does not fit 64 bits
Carries64(a, b) == Less64(Add64(a, b), a)

\* the AA instruction decoded: output and input register, alignment exponent
AA(out, in, alignment) == [out |-> out, in |-> in, spec |-> alignment]

\* Pointer{} with its ptr member set
Pointer(ptr) == [ptr |-> ptr]

\* a call frame: its local registers and what it saves
Frame(regs, sbrk) == [registers |-> regs, saved |-> [sbrk |-> sbrk]]

\* fetch_proxy(stack, access, ip).get<uint64_t>(): the payload, if the
\* register of the current frame holds an unsigned integer
get_uint64(st, access) ==
    LET held == st.frames[Len(st.frames)].registers[access.index]
    IN  IF held.type_of_unboxed = "Integer_unsigned"
        THEN optional(held.value)
        ELSE nullopt

\* save_proxy(stack, access, ip) assigned an address: the register of the
\* current frame holds it as a pointer value
save_proxy(st, access, address) ==
    [st EXCEPT !.frames[Len(st.frames)].registers[access.index] =
                    Value("Pointer", address)]

invalid_operand_type ==
    <<"invalid", "operand", "type", "for", "aa", "instruction">>

\* what execute() leaves: the stack, and what it threw, if it threw
Left(st, e) == [stack |-> st, abort_execution |-> e]

\* the stack break advanced before the operand type is looked at
execute_AA_checks_late(st, op, at) ==
    LET size == get_uint64(st, op.in)
        held == st.frames[Len(st.frames)].registers[op.in.index].value
        advanced == [st EXCEPT !.proc.stack_break = Add64(@, held)]
    IN  IF ~size.has_value
        THEN Left(advanced,
                  optional([ip |-> at, message |-> invalid_operand_type]))
        ELSE Left([save_proxy(
                      [advanced EXCEPT
                          !.frames[Len(st.frames)].saved.sbrk =
                              advanced.proc.stack_break],
                      op.out, st.proc.stack_break)
                   EXCEPT !.proc.pointers =
                              Append(@, Pointer(st.proc.stack_break))],
                  nullopt)

execute_AA(st, op, at) ==
    LET size == get_uint64(st, op.in)
    IN  IF ~size.has_value
        THEN Left(st, optional([ip |-> at, message |-> invalid_operand_type]))
        ELSE LET pointer_address == st.proc.stack_break
                 advanced ==
                    [st EXCEPT !.proc.stack_break = Add64(@, size.value)]
                 saved ==
                    [advanced EXCEPT
                        !.frames[Len(st.frames)].saved.sbrk =
                            advanced.proc.stack_break]
                 written == save_proxy(saved, op.out, pointer_address)
             IN  Left([written EXCEPT
                          !.proc.pointers = Append(@, Pointer(pointer_address))],
                      nullopt)

\* registers of a frame, and what they may hold when AA is reached
AARegisters == {1, 2}

AAValues ==
    { VoidValue,
      Value("Integer_unsigned", Zero64),
      Value("Integer_unsigned", U64(8, 0, 0, 0)),
      Value("Integer_unsigned", U64(0, 0, 0, \h8000)),
      Value("Integer_unsigned", U64(\hFFFF, \hFFFF, \hFFFF, \hFFFF)),
      Value("Integer_signed", U64(8, 0, 0, 0)) }

\* where the stack break may stand when the process starts
AABreaks == { U64(\h1000, 0, 0, 0), U64(0, 0, \h7FFF, 0) }

AAInstructions ==
    { AA(make_local(out), make_local(in), alignment) :
        out \in AARegisters, in \in AARegisters, alignment \in {0, 3} }

AAStacks ==
    UNION { { [proc |-> [stack_break |-> b, pointers |-> <<>>],
               frames |-> lower \o <<Frame(regs, b)>>] :
                regs \in [AARegisters -> AAValues],
                lower \in { <<>>,
                            <<Frame([r \in AARegisters |-> VoidValue], b)>> } } :
            b \in AABreaks }

\* one AA instruction executed at ip; the dispatcher goes on to the next
\* word unless execute() threw
ExecuteAA ==
    /\ pc = "aa"
    /\ Len(stack.proc.pointers) < MaxAllocations
    /\ \E op \in AAInstructions :
        LET left == execute_AA(stack, op, ip)
        IN  /\ instruction' = op
            /\ stack' = left.stack
            /\ abort_execution' = left.abort_execution
            /\ IF left.abort_execution.has_value
               THEN pc' = "aborted" /\ UNCHANGED ip
               ELSE pc' = "aa" /\ ip' = ip + 1
    /\ UNCHANGED <<text, beyond, registers, i, ip_before, greedy, bundle_ip,
                   stderr, nops, li_vars, elf_vars, program_header,
                   dispatched, legacy_vars>>

InitAA ==
    /\ text = <<>>
    /\ pc = "aa"
    /\ InitRun
    /\ value = Zero64
    /\ is_signed = FALSE
    /\ li_parts = to_loading_parts_unsigned(Zero64)
    /\ codec = <<>>
    /\ nodes = <<>>
    /\ rodata_buf = <<>>
    /\ string_table = <<>>
    /\ symbol_table = <<>>
    /\ symbol_map = <<>>
    /\ entry_point_fn = nullopt
    /\ asm_text = <<>>
    /\ reloc_table = <<>>
    /\ diagnostic = nullopt
    /\ a_out = nullopt
    /\ exit_status = nullopt
    /\ program_header = nullopt
    /\ stack \in AAStacks
    /\ abort_execution = nullopt
    /\ dispatched = 0
    /\ NoLegacy

NextAA == ExecuteAA

SpecAA == InitAA /\ [][NextAA]_vars

\* the register of the current frame an access names
Held(st, access) == st.frames[Len(st.frames)].registers[access.index]

\* this step executes an AA whose input register holds an unsigned integer
SucceedingAA ==
    /\ pc = "aa"
    /\ instruction' \in AAInstructions
    /\ Held(stack, instruction'.in).type_of_unboxed = "Integer_unsigned"

\* this step executes an AA whose input register holds no unsigned integer
FailingAA ==
    /\ pc = "aa"
    /\ instruction' \in AAInstructions
    /\ Held(stack, instruction'.in).type_of_unboxed # "Integer_unsigned"

(* C18: a successful AA with input size s and stack break b before the     *)
(* instruction writes b into the output register, sets the process stack   *)
(* break to b + s, sets the current frame's saved stack break to the same  *)
(* b + s, and appends one pointer record with address b to the pointer     *)
(* list; so the recorded regions [b_k, b_k + s_k) are consecutive and do   *)
(* not overlap: b + s is the sum itself, not below b, and no region        *)
(* recorded earlier starts behind b.                                       *)
C18_AllocatesConsecutiveRegions ==
    [][SucceedingAA =>
        LET b == stack.proc.stack_break
            s == Held(stack, instruction'.in).value
            frame == stack'.frames[Len(stack'.frames)]
        IN  /\ Held(stack', instruction'.out).value = b
            /\ stack'.proc.stack_break = Add64(b, s)
            /\ ~Carries64(b, s)
            /\ frame.saved.sbrk = Add64(b, s)
            /\ stack'.proc.pointers = Append(stack.proc.pointers, Pointer(b))
            /\ \A k \in 1..Len(stack.proc.pointers) :
                    ~Less64(b, stack.proc.pointers[k].ptr) ]_vars

\* two allocations of 8 bytes, one behind the other
C18_Witness ==
    /\ pc = "aa"
    /\ Len(stack.proc.pointers) = 2
    /\ stack.proc.pointers[2].ptr
            = Add64(stack.proc.pointers[1].ptr, U64(8, 0, 0, 0))
    /\ stack.proc.stack_break
            = Add64(stack.proc.pointers[2].ptr, U64(8, 0, 0, 0))
    /\ stack.frames[Len(stack.frames)].saved.sbrk = stack.proc.stack_break

(* C19: if the AA input register does not hold an unsigned integer,        *)
(* execution aborts with an error carrying the instruction pointer and the *)
(* message 'invalid operand type', and the process stack break, the        *)
(* frame's saved stack break, the output register and the pointer list are *)
(* all left unchanged.                                                     *)
C19_InvalidOperandAborts ==
    [][FailingAA =>
        /\ pc' = "aborted"
        /\ abort_execution'.has_value
        /\ abort_execution'.value.ip = ip
        /\ SubSeq(abort_execution'.value.message, 1, 3)
                = <<"invalid", "operand", "type">>
        /\ stack'.proc.stack_break = stack.proc.stack_break
        /\ stack'.frames[Len(stack'.frames)].saved.sbrk
                = stack.frames[Len(stack.frames)].saved.sbrk
        /\ Held(stack', instruction'.out) = Held(stack, instruction'.out)
        /\ stack'.proc.pointers = stack.proc.pointers
        /\ stack' = stack ]_vars

\* an abort on a signed size, after one allocation went through
C19_Witness ==
    /\ pc = "aborted"
    /\ abort_execution.has_value
    /\ abort_execution.value.ip = 1
    /\ Len(stack.proc.pointers) = 1
    /\ instruction \in AAInstructions
    /\ Held(stack, instruction.in).type_of_unboxed = "Integer_signed"

-----------------------------------------------------------------------------
(* The assembler of new/src/tools/exec/asm.cpp: what its stages leave and  *)
(* what it writes.                                                         *)

\* the section header of the image that has this name
SectionOf(file, name) ==
    file.sheaders[CHOOSE k \in 1..Len(file.sheaders) :
                        file.sheaders[k].name = name]

\* the integer in up to four little-endian bytes
RECURSIVE FromLE(_)
FromLE(bytes) ==
    IF bytes = <<>> THEN 0 ELSE Head(bytes) + 256 * FromLE(Tail(bytes))

\* symbol k (from 0) as it stands in the .symtab payload of the image
SymbolIn(file, k) ==
    LET section == SectionOf(file, "symtab")
        bytes == pread(file, section.sh_offset + k * SIZEOF_Elf64_Sym,
                       SIZEOF_Elf64_Sym)
    IN  [st_name |-> FromLE(SubSeq(bytes, 1, 4)),
         st_info |-> bytes[5],
         st_other |-> bytes[6],
         st_shndx |-> FromLE(SubSeq(bytes, 7, 8)),
         st_value |-> FromLE(SubSeq(bytes, 9, 12)),
         st_size |-> FromLE(SubSeq(bytes, 17, 20))]

SymbolsIn(file) ==
    LET section == SectionOf(file, "symtab")
    IN  [k \in 1..(section.sh_size \div SIZEOF_Elf64_Sym) |->
            SymbolIn(file, k - 1)]

\* the assembler has written the image
Written == a_out.has_value /\ exit_status = optional(0) /\ nodes # <<>>

\* the instructions of the function definitions before node k
RECURSIVE InstructionsBefore(_, _)
InstructionsBefore(ns, k) ==
    IF k <= 1 THEN 0
    ELSE InstructionsBefore(ns, k - 1)
         + (IF ns[k - 1].kind = "Fn_def"
            THEN Len(ns[k - 1].instructions) ELSE 0)

\* the symbol of the node of this name
SymbolOf(name) == symbol_table[symbol_map[name] + 1]

(* C21: in every run of the assembler in which a stage (lexing, parsing,   *)
(* value-label loading, long-immediate cooking, pseudo-instruction         *)
(* expansion, entry-point detection, bytecode emission) raises a           *)
(* compile-time error, the run ends with exit code 1 before emit_elf is    *)
(* reached, so the output file is never created or truncated.              *)
C21_ErrorsExitBeforeEmitElf ==
    diagnostic.has_value =>
        /\ pc = "exit"
        /\ exit_status = optional(1)
        /\ a_out = nullopt

\* the run ended on a string label repeated by something that is no integer
C21_Witness ==
    /\ pc = "exit"
    /\ diagnostic.has_value
    /\ diagnostic.value.cause = "Invalid_operand"
    /\ exit_status = optional(1)
    /\ a_out = nullopt

(* C22: after emit_bytecode, word 0 of .text is HALT, .text holds 1 + (sum *)
(* of the instruction counts of all function definitions) words, and the   *)
(* instructions of the k-th function definition occupy the contiguous      *)
(* words from byte offset 8 * (1 + sum of the instruction counts of the    *)
(* functions before it); for a function without the extern attribute the   *)
(* symbol's value is that offset and its size is 8 * its instruction       *)
(* count.                                                                  *)
C22_EmitBytecodeLayout ==
    pc = "make_reloc_table" =>
        /\ asm_text[1] = FromNat(OPCODE_HALT)
        /\ Len(asm_text) = 1 + InstructionsBefore(nodes, Len(nodes) + 1)
        /\ \A k \in Functions(nodes) :
            LET first == 1 + InstructionsBefore(nodes, k)
                n == Len(nodes[k].instructions)
            IN  /\ \A j \in 1..n :
                      asm_text[first + j]
                        = emit_instruction(nodes[k].instructions[j])
                /\ ~has_attr(nodes[k], "extern") =>
                      /\ SymbolOf(nodes[k].name).st_value = 8 * first
                      /\ SymbolOf(nodes[k].name).st_size = 8 * n

\* two functions: the second begins behind the instructions of the first
C22_Witness ==
    /\ pc = "make_reloc_table"
    /\ Functions(nodes) = {1, 2}
    /\ Len(nodes[1].instructions) > 1
    /\ SymbolOf("b").st_value = 8 * (1 + Len(nodes[1].instructions))
    /\ asm_text[Len(asm_text)] = FromNat(OPCODE_HALT)

(* C23: in every image the assembler produces, every function symbol's     *)
(* value is a multiple of 8 and its value + size does not exceed the byte   *)
(* size of the .text section.                                              *)
C23_FunctionSymbolsInsideText ==
    Written =>
        \A k \in 1..Len(SymbolsIn(a_out)) :
            LET sym == SymbolsIn(a_out)[k]
            IN  ELF64_ST_TYPE(sym.st_info) = STT_FUNC =>
                    /\ sym.st_value % 8 = 0
                    /\ sym.st_value + sym.st_size
                            <= SectionOf(a_out, "text").sh_size

\* an image with a function symbol that ends where .text ends
C23_Witness ==
    /\ Written
    /\ \E k \in 1..Len(SymbolsIn(a_out)) :
            LET sym == SymbolsIn(a_out)[k]
            IN  /\ ELF64_ST_TYPE(sym.st_info) = STT_FUNC
                /\ sym.st_value > 8
                /\ sym.st_value + sym.st_size
                        = SectionOf(a_out, "text").sh_size

-----------------------------------------------------------------------------
(* stage::make_reloc_table on its own: the relocation table of a text.     *)

MaxRelocWords == 3

\* the words of a text: a NOOP, F words with the immediates 0, 1 and
\* 0x00010002, and CALL, ATOM and a greedy CALL
RelocWords ==
    { U64(OPCODE_NOOP, 0, 0, 0),
      U64(FORMAT_F + 1, 0, 0, 0),
      U64(FORMAT_F + 1, 0, 1, 0),
      U64(FORMAT_F + 1, 0, 2, 1),
      U64(OPCODE_CALL, 0, 0, 0),
      U64(OPCODE_ATOM, 0, 0, 0),
      U64(GREEDY + OPCODE_CALL, 0, 0, 0) }

\* the texts ::emit_bytecode can hand over: word 0 is HALT
RelocTexts ==
    UNION { { <<N_encode(N(OPCODE_HALT))>> \o rest
                : rest \in [1..n -> RelocWords] }
            : n \in 0..MaxRelocWords }

\* main() about to call stage::make_reloc_table
InitReloc ==
    /\ text = <<>>
    /\ InitRun
    /\ value = Zero64
    /\ is_signed = FALSE
    /\ li_parts = to_loading_parts_unsigned(Zero64)
    /\ codec = <<>>
    /\ nodes = <<>>
    /\ rodata_buf = <<>>
    /\ string_table = <<>>
    /\ symbol_table = <<>>
    /\ symbol_map = <<>>
    /\ entry_point_fn = nullopt
    /\ reloc_table = <<>>
    /\ diagnostic = nullopt
    /\ a_out = nullopt
    /\ exit_status = nullopt
    /\ program_header = nullopt
    /\ stack = nullopt
    /\ abort_execution = nullopt
    /\ dispatched = 0
    /\ NoLegacy
    /\ pc = "make_reloc_table"
    /\ asm_text \in RelocTexts

NextReloc == MakeRelocTable

SpecReloc == InitReloc /\ [][NextReloc]_vars

\* the word indexes (from 0) of the CALL and ATOM instructions of a text,
\* ascending
RelocSites(t) ==
    SelectSeq([j \in 1..Len(t) |-> j - 1],
              LAMBDA at : BitAnd(t[at + 1][1], OPCODE_MASK, 16)
                            \in {OPCODE_CALL, OPCODE_ATOM})

MadeRelocTable == pc \in {"emit_elf", "abort"}

\* C24: make_reloc_table returns exactly one relocation for every word index
\* i holding CALL or ATOM, ascending in i, with offset 8 * (i - 2) and kind
\* JUMP_SLOT for CALL, OBJECT for ATOM; every offset is a multiple of 8
\* inside .text, also when the CALL or ATOM word is at index 0 or 1.
C24_OneRelocationPerCallOrAtom ==
    MadeRelocTable =>
        LET sites == RelocSites(asm_text)
        IN  /\ pc = "emit_elf"
            /\ Len(reloc_table) = Len(sites)
            /\ \A k \in 1..Len(sites) :
                /\ reloc_table[k].r_offset = 8 * (sites[k] - 2)
                /\ reloc_table[k].r_type =
                       (IF BitAnd(asm_text[sites[k] + 1][1], OPCODE_MASK, 16)
                             = OPCODE_CALL
                        THEN R_VIUA_JUMP_SLOT ELSE R_VIUA_OBJECT)
                /\ reloc_table[k].r_offset % 8 = 0
                /\ reloc_table[k].r_offset >= 0
                /\ reloc_table[k].r_offset < 8 * Len(asm_text)

\* make_reloc_table has met a CALL or ATOM at word index 1
C24_Witness ==
    /\ MadeRelocTable
    /\ Len(asm_text) >= 2
    /\ BitAnd(asm_text[2][1], OPCODE_MASK, 16) \in {OPCODE_CALL, OPCODE_ATOM}

\* the CALL and ATOM sites of a text that follow two F words
SitesAfterTwoF(t) ==
    { k \in 1..Len(RelocSites(t)) :
        LET at == RelocSites(t)[k]
        IN  /\ at >= 2
            /\ BitAnd(t[at - 1][1], FORMAT_MASK, 16) = FORMAT_F
            /\ BitAnd(t[at][1], FORMAT_MASK, 16) = FORMAT_F }

\* C25 as stated: the symbol-table index of every relocation is the 64-bit
\* value (upper << 32) | lower of the immediates of the two F words before
\* the instruction, for all immediates.
C25_IndexIsWideValue ==
    pc = "emit_elf" =>
        \A k \in SitesAfterTwoF(asm_text) :
            LET at == RelocSites(asm_text)[k]
            IN  reloc_table[k].r_sym =
                    Or64(Shl64(F_decode(asm_text[at - 1]).immediate, 32),
                         F_decode(asm_text[at]).immediate)

\* C25 amended: the symbol-table index of every relocation is the low 32
\* bits of (upper << 32) | lower, that is the immediate of the F word just
\* before the instruction.
C25_IndexIsLowerImmediate ==
    pc = "emit_elf" =>
        \A k \in SitesAfterTwoF(asm_text) :
            LET at == RelocSites(asm_text)[k]
            IN  reloc_table[k].r_sym = F_decode(asm_text[at]).immediate

\* a relocation was made for an instruction after two F words whose upper
\* immediate is not 0 and differs from the lower one
C25_Witness ==
    /\ pc = "emit_elf"
    /\ \E k \in SitesAfterTwoF(asm_text) :
        LET at == RelocSites(asm_text)[k]
        IN  /\ F_decode(asm_text[at - 1]).immediate # Zero64
            /\ F_decode(asm_text[at - 1]).immediate
                 # F_decode(asm_text[at]).immediate

-----------------------------------------------------------------------------
(* The image stage::emit_elf writes, read back from the file.              *)

\* the section headers whose payloads are written behind the headers
PayloadSections(file) ==
    SelectSeq(file.sheaders,
              LAMBDA section : section.sh_type \notin {SHT_NULL, SHT_NOBITS})

\* the bytes the first k payloads take
RECURSIVE PayloadEnd(_, _)
PayloadEnd(sections, k) ==
    IF k = 0 THEN 0 ELSE PayloadEnd(sections, k - 1) + sections[k].sh_size

\* the section a segment is paired with
PairedSection(file, segment) ==
    SectionOf(file,
              IF segment.p_type = PT_INTERP THEN "dot_interp"
              ELSE IF segment.p_flags = PF_R + PF_X THEN "text"
              ELSE "rodata")

\* the eight bytes at this file offset are the p_offset field of a program
\* header that holds VIUA_MAGIC
MagicAt(file, offset) ==
    \E k \in 1..Len(file.pheaders) :
        /\ offset = file.elf_header.e_phoff + (k - 1) * SIZEOF_Elf64_Phdr
                    + OFFSETOF_p_offset
        /\ file.pheaders[k].magic

\* every payload section begins where its payload was written, the payloads
\* follow each other from the end of the headers to the end of the file, and
\* every segment that is not PT_NULL begins where its section does
PayloadsWhereWritten(file) ==
    LET sections == PayloadSections(file)
    IN  /\ [k \in 1..Len(sections) |-> sections[k].name]
             = << "dot_interp", "rel", "text", "rodata", "dot_comment",
                  "symtab", "strtab", "shstrtab" >>
        /\ \A k \in 1..Len(sections) :
            sections[k].sh_offset
                = ElfSize(file) + PayloadEnd(sections, k - 1)
        /\ PayloadEnd(sections, Len(sections)) = Len(file.data)
        /\ pread(file, SectionOf(file, "dot_interp").sh_offset,
                 SectionOf(file, "dot_interp").sh_size)
             = Chars.interp \o <<0>>
        /\ pread(file, SectionOf(file, "text").sh_offset,
                 SectionOf(file, "text").sh_size) = TextBytes(asm_text)
        /\ pread(file, SectionOf(file, "rodata").sh_offset,
                 SectionOf(file, "rodata").sh_size) = rodata_buf
        /\ pread(file, SectionOf(file, "dot_comment").sh_offset,
                 SectionOf(file, "dot_comment").sh_size)
             = Chars.comment \o <<0>>
        /\ pread(file, SectionOf(file, "strtab").sh_offset,
                 SectionOf(file, "strtab").sh_size) = string_table
        /\ SectionOf(file, "rel").sh_size
             = Len(reloc_table) * SIZEOF_Elf64_Rel
        /\ SectionOf(file, "symtab").sh_size
             = Len(symbol_table) * SIZEOF_Elf64_Sym
        /\ \A k \in 1..Len(file.pheaders) :
            file.pheaders[k].p_type # PT_NULL =>
                file.pheaders[k].p_offset
                    = PairedSection(file, file.pheaders[k]).sh_offset

\* C26: in the image emit_elf writes, every section header's offset is the
\* file position at which its payload was written (interp, rel, .text,
\* .rodata, comment, symtab, strtab, shstrtab, in this order), every program
\* header that is not PT_NULL has the offset of its paired section, and the
\* payloads are contiguous and do not overlap; the offset of .viua.magic
\* points at the eight magic bytes.
C26_OffsetsPointAtPayloads ==
    Written =>
        /\ PayloadsWhereWritten(a_out)
        /\ MagicAt(a_out, SectionOf(a_out, "viua_magic").sh_offset)

\* an image with read-only data was written; its magic bytes are in a
\* program header
C26_Witness ==
    /\ Written
    /\ SectionOf(a_out, "viua_magic").sh_size = 8
    /\ SectionOf(a_out, "rodata").sh_size > 0
    /\ \E k \in 1..Len(a_out.pheaders) : a_out.pheaders[k].magic

\* the source has a function marked as the entry point
HasEntryPoint(ns) ==
    \E k \in 1..Len(ns) : ns[k].kind = "Fn_def" /\ has_attr(ns[k], "entry_point")

\* C27: e_entry of the written ELF header is the file offset of the .text
\* payload plus the symbol value of the entry function when there is an
\* entry function, and 0 otherwise; it is not 0 exactly when the source has
\* a function marked as the entry point.
C27_EntryAddress ==
    Written =>
        /\ a_out.elf_header.e_entry =
            (IF entry_point_fn.has_value
             THEN SectionOf(a_out, "text").sh_offset
                  + SymbolIn(a_out, symbol_map[entry_point_fn.value]).st_value
             ELSE 0)
        /\ (a_out.elf_header.e_entry # 0) <=> HasEntryPoint(nodes)

\* an image whose entry function is not the first function of .text
C27_Witness ==
    /\ Written
    /\ entry_point_fn.has_value
    /\ SymbolIn(a_out, symbol_map[entry_point_fn.value]).st_value > 8
    /\ a_out.elf_header.e_entry > SectionOf(a_out, "text").sh_offset + 8

\* the index of the section header of this name in the section header table
SectionIndex(file, name) ==
    (CHOOSE k \in 1..Len(file.sheaders) : file.sheaders[k].name = name) - 1

\* the function definitions of the source that are, or are not, extern
ExternFunctions(ns) == { k \in Functions(ns) : has_attr(ns[k], "extern") }

\* C28: in the written symbol table every extern function's symbol has
\* global binding, value 0, size 0 and the undefined section index, and
\* every other function's symbol has the section index of .text.
C28_ExternSymbolsUndefined ==
    Written =>
        \A k \in Functions(nodes) :
            LET sym == SymbolIn(a_out, symbol_map[nodes[k].name])
            IN  IF k \in ExternFunctions(nodes)
                THEN /\ sym.st_info \div 16 = STB_GLOBAL
                     /\ sym.st_value = 0
                     /\ sym.st_size = 0
                     /\ sym.st_shndx = SHN_UNDEF
                ELSE sym.st_shndx = SectionIndex(a_out, "text")

\* an image was written for a source with an extern function and a function
\* that has a body
C28_Witness ==
    /\ Written
    /\ ExternFunctions(nodes) # {}
    /\ Functions(nodes) \ ExternFunctions(nodes) # {}

\* the string and atom labels of the source, and the bytes a label stands
\* for
ValueLabels(ns) ==
    { k \in 1..Len(ns) : ns[k].kind = "Label_def"
                         /\ ns[k].type \in {"string", "atom"} }

LabelBytes(node) ==
    IF node.type = "atom" THEN node.value[1].text
    ELSE string_value(node.value, 0, <<>>).s

LoadedValueLabels == pc = "cook_long_immediates"

\* C29: after load_value_labels every string or atom label of the source
\* has a symbol, and every such label that is not extern has its bytes in
\* .rodata at the offset its symbol's value gives, with the symbol's size
\* their length, wherever extern labels stand in the list of definitions.
C29_EveryLabelHasSymbol ==
    LoadedValueLabels =>
        \A k \in ValueLabels(nodes) :
            /\ nodes[k].name \in DOMAIN symbol_map
            /\ ~has_attr(nodes[k], "extern") =>
                LET sym == SymbolOf(nodes[k].name)
                IN  /\ sym.st_size = Len(LabelBytes(nodes[k]))
                    /\ SubSeq(rodata_buf, sym.st_value + 1,
                              sym.st_value + sym.st_size)
                         = LabelBytes(nodes[k])

\* load_value_labels has run on a source in which an extern label stands
\* before a label with a value
C29_Witness ==
    /\ LoadedValueLabels
    /\ \E k \in ValueLabels(nodes) : \E l \in ValueLabels(nodes) :
        /\ k < l
        /\ has_attr(nodes[k], "extern")
        /\ ~has_attr(nodes[l], "extern")

\* a string label whose value is a string literal, the repetition token and
\* one more lexeme
IsRepetition(node) ==
    /\ node.kind = "Label_def"
    /\ node.type = "string"
    /\ ~has_attr(node, "extern")
    /\ Len(node.value) = 3
    /\ node.value[1].token = "LITERAL_STRING"
    /\ node.value[2].token = "RA_PTR_DEREF"

\* the bytes the string literal of a repetition stands for
LiteralBytes(node) ==
    unescape(SubSeq(node.value[1].text, 2, Len(node.value[1].text) - 1))

\* load_value_labels was called and has returned or has ended the run
RanLoadValueLabels ==
    /\ pc \notin {"lexical_analysis", "syntactical_analysis",
                  "load_function_labels", "load_value_labels"}
    /\ ~(pc = "exit" /\ diagnostic.has_value
         /\ diagnostic.value.cause \in {"lexical_analysis", "parse"})

\* C30: for a string label whose value is a string literal s, the repetition
\* token and an integer N, .rodata holds the unescaped s N times and the
\* symbol's size is N times the length of the unescaped s; if what follows
\* the repetition token is no integer literal, the assembler stops with the
\* invalid-operand error and records no symbol for the label.
C30_StringRepetition ==
    \A k \in 1..Len(nodes) :
        IsRepetition(nodes[k]) =>
            IF nodes[k].value[3].token = "LITERAL_INTEGER"
            THEN LoadedValueLabels =>
                    /\ nodes[k].name \in DOMAIN symbol_map
                    /\ LET sym == SymbolOf(nodes[k].name)
                           x == ston(nodes[k].value[3].text)
                       IN  /\ sym.st_size = x * Len(LiteralBytes(nodes[k]))
                           /\ SubSeq(rodata_buf, sym.st_value + 1,
                                     sym.st_value + sym.st_size)
                                = Repeated(LiteralBytes(nodes[k]), x)
            ELSE RanLoadValueLabels =>
                    /\ pc = "exit"
                    /\ exit_status = optional(1)
                    /\ diagnostic = optional(Error("Invalid_operand"))
                    /\ nodes[k].name \notin DOMAIN symbol_map

\* load_value_labels has stored a string literal of three bytes twice
C30_Witness ==
    /\ LoadedValueLabels
    /\ \E k \in 1..Len(nodes) :
        /\ IsRepetition(nodes[k])
        /\ nodes[k].value[3].token = "LITERAL_INTEGER"
        /\ nodes[k].name \in DOMAIN symbol_map
        /\ SymbolOf(nodes[k].name).st_size = 6
        /\ Len(rodata_buf) >= 6

\* the program headers of an image in the order the claim of C31 gives:
\* the magic, the interpreter, then the LOAD segments with .text first
MagicInterpLoad(file) ==
    LET ph == file.pheaders
    IN  /\ Len(ph) >= 3
        /\ ph[1].p_type = PT_NULL
        /\ ph[1].magic
        /\ ph[2].p_type = PT_INTERP
        /\ pread(file, ph[2].p_offset, ph[2].p_filesz) = Chars.interp \o <<0>>
        /\ \A k \in 3..Len(ph) : ph[k].p_type = PT_LOAD
        /\ ph[3].p_flags = PF_R + PF_X

\* C31: in every image the assembler writes, the first program header has
\* type NULL and carries the eight magic bytes in its offset field, the
\* second has type INTERP and covers the interpreter-name string, and the
\* program headers after them are LOAD segments, .text (read and execute)
\* first.
C31_ProgramHeaderOrder == Written => MagicInterpLoad(a_out)

\* an image of the assembler with its five program headers
C31_Witness ==
    /\ Written
    /\ Len(a_out.pheaders) = 5
    /\ \E k \in 1..Len(a_out.pheaders) : a_out.pheaders[k].p_type = PT_INTERP

-----------------------------------------------------------------------------
(* run() of new/src/tools/vm.cpp: how far it reads and whether it ends.    *)

\* run() with every step that can be taken taken in the end
SpecRunFair == Spec /\ WF_vars(Next)

\* run() has returned
RunEnded == pc = "done"

\* C33: for every text run() terminates: each dispatched instruction either
\* ends the run or advances the instruction pointer by exactly one word, so
\* at most as many instructions are dispatched as the text has words.
C33_RunTerminates ==
    /\ <>RunEnded
    /\ [](dispatched <= Len(text))
    /\ [][RunInstruction => (ip' = nullptr \/ ip' = ip + 1)]_vars

\* run() has dispatched every word of a text of four words
C33_Witness ==
    /\ Len(text) = MaxTextLen
    /\ dispatched = Len(text)
    /\ RunEnded

\* C34: the interpreter never fetches an instruction word at or beyond the
\* end of the text, for every text, also one whose last word has the greedy
\* bit set.
C34_NeverFetchesBeyondEnd == ReadsIp => ip < ip_end

\* the last word of the text was dispatched and has the greedy bit set
C34_Witness ==
    /\ Len(text) >= 1
    /\ dispatched >= 1
    /\ instruction = text[Len(text)]
    /\ IsGreedy(instruction)
    /\ ip = ip_end

-----------------------------------------------------------------------------
(* The legacy VM: capture of a register by a closure,                      *)
(* viua::process::Process::opcapture of src/src/process/instr/closure.cpp. *)

MaxClosureRegisters == 3
MaxInteger == 2

\* what the actions of the legacy VM leave alone
modern_vars == <<run_vars, li_vars, elf_vars, program_header, stack, abort_execution, dispatched>>

\* viua::types::Integer and viua::types::Reference as register contents
Integer(n) == [type |-> "Integer", n |-> n]
Reference(pointer) == [type |-> "Reference", pointer |-> pointer]

\* a register that holds no object
empty == [type |-> "nullptr"]

\* viua::types::Exception
Exception(what) == optional(what)

\* Reference(nullptr) and rebind(): a shared pointer of its own with this
\* pointee, held once
rebind(refs, pointee) == Append(refs, [pointee |-> pointee, counter |-> 1])

\* Reference::copy(): one more holder of the shared pointer
copy(refs, ref) ==
    [refs EXCEPT ![ref.pointer].counter = refs[ref.pointer].counter + 1]

\* ~Reference(): one holder fewer
released(refs, held) ==
    IF held # empty /\ held.type = "Reference"
    THEN [refs EXCEPT ![held.pointer].counter = refs[held.pointer].counter - 1]
    ELSE refs

Captured(src, rs, refs, e) ==
    [source |-> src, target |-> rs, references |-> refs, thrown |-> e]

\* opcapture that gives the closure a copy of the value referred to
opcapture_of_pointee(rs, target_register, src, refs) ==
    IF target_register >= Len(rs)
    THEN Captured(src, rs, refs, Exception("cannot capture object"))
    ELSE LET wrapped == src.type # "Reference"
             refs2 == IF wrapped THEN rebind(refs, src) ELSE refs
             src2 == IF wrapped THEN Reference(Len(refs2)) ELSE src
         IN  Captured(src2,
                      [rs EXCEPT ![target_register + 1] =
                            refs2[src2.pointer].pointee],
                      released(refs2, rs[target_register + 1]),
                      nullopt)

\* Process::opcapture with its operands fetched: the closure's register
\* set, the index of the register in it, the source register
opcapture(rs, target_register, src, refs) ==
    IF target_register >= Len(rs)
    THEN Captured(src, rs, refs, Exception("cannot capture object"))
    ELSE LET wrapped == src.type # "Reference"
             refs2 == IF wrapped THEN rebind(refs, src) ELSE refs
             src2 == IF wrapped THEN Reference(Len(refs2)) ELSE src
         IN  Captured(src2,
                      [rs EXCEPT ![target_register + 1] = src2],
                      released(copy(refs2, src2), rs[target_register + 1]),
                      nullopt)

\* the capture instruction is run
OpCapture ==
    /\ pc = "closure"
    /\ \E target_register \in 0..MaxClosureRegisters :
        LET done == opcapture(target, target_register, source, references)
        IN  /\ source' = done.source
            /\ target' = done.target
            /\ references' = done.references
            /\ thrown' = done.thrown
    /\ UNCHANGED <<pc, modern_vars, cpu_vars, thread_vars>>

\* the registers of the frame and of the closure
Holders == {source} \cup {target[k] : k \in 1..Len(target)}

\* an instruction writes an integer to a register that holds a reference:
\* the object referred to is what changes
StoreThrough ==
    /\ pc = "closure"
    /\ \E held \in Holders : \E n \in 0..MaxInteger :
        /\ held # empty
        /\ held.type = "Reference"
        /\ references' = [references EXCEPT ![held.pointer].pointee = Integer(n)]
    /\ thrown' = nullopt
    /\ UNCHANGED <<pc, source, target, modern_vars, cpu_vars, thread_vars>>

\* a frame with one register holding an integer, or a reference left by an
\* earlier capture (which another closure may hold still), and a closure
\* that has captured nothing yet
InitCapture ==
    /\ text = <<>>
    /\ InitRun
    /\ value = Zero64
    /\ is_signed = FALSE
    /\ li_parts = to_loading_parts_unsigned(Zero64)
    /\ codec = <<>>
    /\ nodes = <<>>
    /\ rodata_buf = <<>>
    /\ string_table = <<>>
    /\ symbol_table = <<>>
    /\ symbol_map = <<>>
    /\ entry_point_fn = nullopt
    /\ asm_text = <<>>
    /\ reloc_table = <<>>
    /\ diagnostic = nullopt
    /\ a_out = nullopt
    /\ exit_status = nullopt
    /\ program_header = nullopt
    /\ stack = nullopt
    /\ abort_execution = nullopt
    /\ dispatched = 0
    /\ thrown = nullopt
    /\ frames = <<>>
    /\ frame_new = nullptr
    /\ uregset = 0
    /\ NoThread
    /\ pc = "closure"
    /\ \E size \in 1..MaxClosureRegisters : target = [k \in 1..size |-> empty]
    /\ \E n \in 0..MaxInteger :
        \/ source = Integer(n) /\ references = <<>>
        \/ /\ source = Reference(1)
           /\ \E held \in 1..2 :
                references = <<[pointee |-> Integer(n), counter |-> held]>>

NextCapture == OpCapture \/ StoreThrough

SpecCapture == InitCapture /\ [][NextCapture]_vars

\* what is seen through a register
Seen(held) ==
    IF held.type = "Reference" THEN references[held.pointer].pointee ELSE held

\* C32: after opcapture(closure, i, source) with i inside the closure's
\* register set the source register holds a reference and register i of the
\* closure a copy of that reference, so both refer to the same value and an
\* update made through either is seen through the other, whether or not the
\* source held a reference before the capture.
C32_CaptureShares ==
    \A k \in 1..Len(target) :
        target[k] # empty =>
            /\ source.type = "Reference"
            /\ target[k] = source
            /\ Seen(target[k]) = Seen(source)
            /\ references[source.pointer].counter >= 2
            /\ references[source.pointer].counter
                 >= 1 + Cardinality({l \in 1..Len(target) : target[l] # empty})

\* both registers of a closure have captured a source that held no
\* reference, and the value was updated afterwards
C32_Witness ==
    /\ Len(target) = 2
    /\ target[1] # empty
    /\ target[2] # empty
    /\ Len(references) = 1
    /\ references[1].counter = 3
    /\ Seen(source) = Integer(1)
    /\ Seen(target[2]) = Integer(1)

-----------------------------------------------------------------------------
(* The parts of the li decomposition and the fields that carry them.       *)

\* what an R word and an E word give back for an immediate
CarriedByR(immediate) ==
    R_decode(R_encode(R(OPCODE_ADDIU, make_local(1), make_void,
                        immediate))).immediate

CarriedByE(immediate) ==
    E_decode(E_encode(E(OPCODE_LUIU, make_local(1), immediate))).immediate

\* C35: for every 64-bit v the parts to_loading_parts_unsigned(v) returns
\* fit the instruction fields that carry them: the high part is below 2^36
\* (the immediate of format E), base below 2^24 and remainder below 16 (the
\* immediates of format R), and multiplier is 0 or 16; op_li truncates no
\* part when it encodes it.
C35_PartsFitFields ==
    pc # "asm" =>
        /\ High36[4] = 0
        /\ High36[3] < 16
        /\ Base < 16777216
        /\ Remainder < 16
        /\ Multiplier \in {0, 16}
        /\ CarriedByE(High36) = High36
        /\ CarriedByR(Base) = Base
        /\ CarriedByR(Multiplier) = Multiplier
        /\ CarriedByR(Remainder) = Remainder

\* a value with all of its bits set was taken apart: every part is the
\* largest its field holds
C35_Witness ==
    /\ pc # "asm"
    /\ High36 = U64(65535, 65535, 15, 0)
    /\ Base = 16777215
    /\ Multiplier = 16
    /\ Remainder = 15

\* C36: in every state reached by executing instructions from a register
\* file of 256 void slots, a slot that is void (and so skipped by the dump
\* of EBREAK) has payload 0: a slot written with a payload that is not 0 by
\* ADD, MUL, LUI, LUIU, ADDI or ADDIU is not void afterwards.
C36_VoidSlotsHoldZero ==
    \A r \in 0..(NumRegisters - 1) :
        Value_is_void(registers[r]) => registers[r].value = Zero64

\* the words of op_li were run and ADD has written a payload that is not 0
C36_Witness ==
    /\ pc = "done"
    /\ BitAnd(instruction[1], OPCODE_MASK, 16) = OPCODE_ADD
    /\ registers[1].value # Zero64
    /\ registers[2].value # Zero64
    /\ ~Value_is_void(registers[2])

\* ---------------------------------------------------------------------
\* The legacy CPU: frames and foreign calls (src/cpu/cpu.cpp)
\* ---------------------------------------------------------------------

\* MAX_STACK_SIZE of the CPU's header, scaled down
MAX_STACK_SIZE == 3

\* the addresses operator new can hand out for a Frame
MaxFrames == MAX_STACK_SIZE + 2
FrameAddresses == 1 .. MaxFrames

\* the CPU's own register set; a frame's register set goes by the
\* frame's address
regset == 0

\* the names callForeign is asked for, and the ones registered
ForeignNames == {"io::print", "io::missing"}
foreign_functions == {"io::print"}

CpuState == [frames |-> frames, frame_new |-> frame_new, uregset |-> uregset, thrown |-> nullopt]

Range(seq) == {seq[k] : k \in 1 .. Len(seq)}

\* CPU::requestNewFrame, given the address operator new returns
requestNewFrame(cpu, address) ==
    IF cpu.frame_new # nullptr
    THEN [cpu EXCEPT !.thrown = Exception("requested new frame while last one is unused")]
    ELSE [cpu EXCEPT !.frame_new = address, !.thrown = nullopt]

\* CPU::pushFrame
pushFrame(cpu) ==
    IF Len(cpu.frames) > MAX_STACK_SIZE
    THEN [cpu EXCEPT !.thrown = Exception("stack size exceeded")]
    ELSE IF cpu.frame_new \in Range(cpu.frames)
    THEN [cpu EXCEPT !.uregset = cpu.frame_new,
                     !.thrown = Exception("stack corruption: frame pushed more than once")]
    ELSE [cpu EXCEPT !.uregset = cpu.frame_new,
                     !.frames = Append(cpu.frames, cpu.frame_new),
                     !.frame_new = nullptr,
                     !.thrown = nullopt]

\* CPU::dropFrame
dropFrame(cpu) ==
    LET rest == SubSeq(cpu.frames, 1, Len(cpu.frames) - 1)
    IN  [cpu EXCEPT !.frames = rest,
                    !.uregset = IF Len(rest) > 0 THEN rest[Len(rest)] ELSE regset,
                    !.thrown = nullopt]

\* CPU::callForeign; return_index is the operand naming the register of
\* the result, returns_value whether the callback set register 0
callForeign(cpu, call_name, return_index, returns_value) ==
    IF cpu.frame_new = nullptr
    THEN [cpu EXCEPT !.thrown = Exception("external function call without a frame")]
    ELSE
    LET pushed == pushFrame(cpu)
    IN  IF pushed.thrown # nullopt THEN pushed
        ELSE IF call_name \notin foreign_functions
        THEN [pushed EXCEPT !.thrown = Exception("call to unregistered external function")]
        ELSE IF return_index # 0 /\ ~returns_value
        THEN [pushed EXCEPT !.thrown = Exception("return value requested by frame but external function did not set return register")]
        ELSE dropFrame(pushed)

BecomesCpu(cpu) ==
    /\ frames' = cpu.frames
    /\ frame_new' = cpu.frame_new
    /\ uregset' = cpu.uregset
    /\ thrown' = cpu.thrown
    /\ UNCHANGED <<pc, source, target, references, modern_vars, thread_vars>>

RequestNewFrame ==
    /\ pc = "cpu"
    /\ \E address \in FrameAddresses \ (Range(frames) \cup {frame_new}) :
           BecomesCpu(requestNewFrame(CpuState, address))

\* pushFrame as callNative, callForeign and callForeignMethod reach it:
\* with a frame requested
PushFrame ==
    /\ pc = "cpu"
    /\ frame_new # nullptr
    /\ BecomesCpu(pushFrame(CpuState))

\* dropFrame as the return paths reach it: with a frame on the stack
DropFrame ==
    /\ pc = "cpu"
    /\ frames # <<>>
    /\ BecomesCpu(dropFrame(CpuState))

CallForeignOf(call_name) ==
    /\ pc = "cpu"
    /\ \E return_index \in {0, 1}, returns_value \in BOOLEAN :
           BecomesCpu(callForeign(CpuState, call_name, return_index, returns_value))

CallForeign == \E call_name \in ForeignNames : CallForeignOf(call_name)

InitCpu ==
    /\ text = <<>>
    /\ InitRun
    /\ value = Zero64
    /\ is_signed = FALSE
    /\ li_parts = to_loading_parts_unsigned(Zero64)
    /\ codec = <<>>
    /\ NoOthers
    /\ pc = "cpu"

NextCpu == RequestNewFrame \/ PushFrame \/ DropFrame \/ CallForeign

SpecCpu == InitCpu /\ [][NextCpu]_vars

\* C37: whatever requestNewFrame, pushFrame and dropFrame did, the call
\* stack holds at most MAX_STACK_SIZE frames, and a pushFrame on a stack
\* that already holds MAX_STACK_SIZE of them raises the "stack size
\* exceeded" exception and leaves the stack as it was.
C37_StackBounded ==
    /\ [](Len(frames) <= MAX_STACK_SIZE)
    /\ [][(PushFrame /\ Len(frames) >= MAX_STACK_SIZE)
            => /\ thrown' = Exception("stack size exceeded")
               /\ frames' = frames]_vars

C37_Witness ==
    /\ pc = "cpu"
    /\ Len(frames) >= MAX_STACK_SIZE
    /\ frame_new = nullptr
    /\ thrown = nullopt

\* C38: a callForeign that returns without an exception leaves the call
\* stack as deep as it found it, and a callForeign for a name that is not
\* registered, made with a frame requested and room on the stack, raises
\* the "call to unregistered external function" exception and leaves the
\* call stack and the register set in use as they were.
C38_ForeignCallBalanced ==
    [][\A call_name \in ForeignNames :
          CallForeignOf(call_name) =>
              /\ thrown' = nullopt => Len(frames') = Len(frames)
              /\ (/\ call_name \notin foreign_functions
                  /\ frame_new # nullptr
                  /\ Len(frames) < MAX_STACK_SIZE)
                    => /\ thrown' = Exception("call to unregistered external function")
                       /\ frames' = frames
                       /\ uregset' = uregset]_vars

C38_Witness ==
    /\ pc = "cpu"
    /\ thrown = Exception("call to unregistered external function")
    /\ frames # <<>>

\* ---------------------------------------------------------------------
\* The legacy thread: receiving messages and joining threads
\* (src/thread/instr/threading.cpp, src/cpu/cpu.cpp)
\* ---------------------------------------------------------------------

\* messages passed to a thread
MaxMessages == 3
\* instructions a thread runs
MaxInstructions == 3

\* an opcode, and an integer operand: the by-reference flag and the int
sizeof_opcode == 1
sizeof_integer_operand == 5
InstructionSize == sizeof_opcode + sizeof_integer_operand

\* viua::types::ThreadType: the handle of thread k
ThreadType(k) == [type |-> "Thread", thread |-> k]

\* a register: the pointer it holds and its mask. No two objects of the
\* model are equal, so a pointer is told by the object it points to.
null == empty
RegisterOf(pointer, mask) == [pointer |-> pointer, mask |-> mask]
REFERENCE == "REFERENCE"

\* a thread the CPU runs, as its ThreadType shows it
RunningThread == [stopped |-> FALSE, active_exception |-> nullopt, joined |-> FALSE]
stopped(thrd) == thrd.stopped
terminated(thrd) == thrd.active_exception # nullopt

ThreadState ==
    [register_set |-> register_set, references |-> references,
     threads |-> threads, message_queue |-> message_queue,
     instruction_pointer |-> instruction_pointer, thrown |-> thrown]

Throws(thread, what) == [thread EXCEPT !.thrown = Exception(what)]

\* RegisterSet::get and CPU::fetch: the object of a register, the one
\* referred to if the register holds a Reference
fetch(rs, refs, index) ==
    IF index >= Len(rs)
    THEN [thrown |-> Exception("register access out of bounds: read"), object |-> empty]
    ELSE IF rs[index + 1].pointer = null
    THEN [thrown |-> Exception("read from null register"), object |-> empty]
    ELSE LET object == rs[index + 1].pointer
         IN  [thrown |-> nullopt,
              object |-> IF object.type = "Reference"
                         THEN refs[object.pointer].pointee
                         ELSE object]

\* CPU::hasrefs
hasrefs(rs, index) ==
    \E k \in 0 .. Len(rs) - 1 :
        k # index /\ rs[k + 1].pointer = rs[index + 1].pointer

\* CPU::updaterefs: every register holding the old pointer gets the new
\* one and keeps its mask
updaterefs(rs, before, now) ==
    [k \in 1 .. Len(rs) |->
        IF rs[k].pointer = before THEN RegisterOf(now, rs[k].mask) ELSE rs[k]]

\* CPU::place
place(rs, index, obj) ==
    LET old_ref_ptr == IF hasrefs(rs, index) THEN rs[index + 1].pointer ELSE null
        set == [rs EXCEPT ![index + 1].pointer = obj]
    IN  IF old_ref_ptr # null /\ REFERENCE \notin set[index + 1].mask
        THEN updaterefs(set, old_ref_ptr, obj)
        ELSE set

\* extractIntegerOperand and the by-reference step after it: the indexes
\* the operand can stand for. Reading an Integer's value out of an object
\* of another type yields any index.
IntegerOperands == [ref : BOOLEAN, index : 0 .. MaxMessages]
Resolved(rs, refs, operand) ==
    IF ~operand.ref
    THEN {[thrown |-> nullopt, index |-> operand.index]}
    ELSE LET fetched == fetch(rs, refs, operand.index)
         IN  IF fetched.thrown # nullopt
             THEN {[thrown |-> fetched.thrown, index |-> 0]}
             ELSE IF fetched.object.type = "Integer"
             THEN {[thrown |-> nullopt, index |-> fetched.object.n]}
             ELSE {[thrown |-> nullopt, index |-> k] : k \in 0 .. MaxMessages}

\* opthreceive that takes the message that arrived last
opthreceive_newest(thread, return_register_index) ==
    LET addr == thread.instruction_pointer + sizeof_opcode + sizeof_integer_operand
        queue == thread.message_queue
    IN  IF Len(queue) = 0 THEN thread
        ELSE IF return_register_index >= Len(thread.register_set)
        THEN Throws(thread, "register access out of bounds: write")
        ELSE [thread EXCEPT
                !.register_set = place(thread.register_set, return_register_index, queue[Len(queue)]),
                !.message_queue = SubSeq(queue, 1, Len(queue) - 1),
                !.instruction_pointer = addr]

\* Thread::opthreceive with its operand resolved
opthreceive(thread, return_register_index) ==
    LET addr == thread.instruction_pointer + sizeof_opcode + sizeof_integer_operand
        queue == thread.message_queue
    IN  IF Len(queue) = 0 THEN thread
        ELSE IF return_register_index >= Len(thread.register_set)
        THEN Throws(thread, "register access out of bounds: write")
        ELSE [thread EXCEPT
                !.register_set = place(thread.register_set, return_register_index, Head(queue)),
                !.message_queue = Tail(queue),
                !.instruction_pointer = addr]

\* opthjoin that does not ask whether the thread has stopped
opthjoin_at_once(thread, thrd_register_index) ==
    LET addr == thread.instruction_pointer + sizeof_opcode + sizeof_integer_operand
        fetched == fetch(thread.register_set, thread.references, thrd_register_index)
    IN  IF fetched.thrown # nullopt THEN [thread EXCEPT !.thrown = fetched.thrown]
        ELSE IF fetched.object.type = "Thread"
        THEN LET k == fetched.object.thread
                 thrd == thread.threads[k]
             IN  IF terminated(thrd)
                 THEN [thread EXCEPT !.threads[k].joined = TRUE,
                                     !.threads[k].active_exception = nullopt,
                                     !.thrown = thrd.active_exception,
                                     !.instruction_pointer = addr]
                 ELSE [thread EXCEPT !.threads[k].joined = TRUE,
                                     !.instruction_pointer = addr]
        ELSE Throws(thread, "invalid type: expected Thread")

\* Thread::opthjoin with its operand resolved
opthjoin(thread, thrd_register_index) ==
    LET addr == thread.instruction_pointer + sizeof_opcode + sizeof_integer_operand
        fetched == fetch(thread.register_set, thread.references, thrd_register_index)
    IN  IF fetched.thrown # nullopt THEN [thread EXCEPT !.thrown = fetched.thrown]
        ELSE IF fetched.object.type = "Thread"
        THEN LET k == fetched.object.thread
                 thrd == thread.threads[k]
             IN  IF stopped(thrd)
                 THEN IF terminated(thrd)
                      THEN [thread EXCEPT !.threads[k].joined = TRUE,
                                          !.threads[k].active_exception = nullopt,
                                          !.thrown = thrd.active_exception,
                                          !.instruction_pointer = addr]
                      ELSE [thread EXCEPT !.threads[k].joined = TRUE,
                                          !.instruction_pointer = addr]
                 ELSE thread
        ELSE Throws(thread, "invalid type: expected Thread")

BecomesThread(thread) ==
    /\ register_set' = thread.register_set
    /\ threads' = thread.threads
    /\ message_queue' = thread.message_queue
    /\ instruction_pointer' = thread.instruction_pointer
    /\ thrown' = thread.thrown
    /\ UNCHANGED <<pc, source, target, references, modern_vars, cpu_vars>>

\* an instruction is left to run, and no exception has ended the run
Runs ==
    /\ pc = "thread"
    /\ thrown = nullopt
    /\ instruction_pointer < MaxInstructions * InstructionSize

\* the operand's index is resolved, then the instruction runs on it; an
\* exception of the resolution leaves the instruction undone
OpThReceiveAt(operand, index) ==
    /\ Runs
    /\ \E resolved \in Resolved(register_set, references, operand) :
        /\ resolved.index = index
        /\ IF resolved.thrown # nullopt
           THEN BecomesThread([ThreadState EXCEPT !.thrown = resolved.thrown])
           ELSE BecomesThread(opthreceive(ThreadState, index))

OpThReceive ==
    \E operand \in IntegerOperands, index \in 0 .. MaxMessages :
        OpThReceiveAt(operand, index)

OpThJoinAt(operand, index) ==
    /\ Runs
    /\ \E resolved \in Resolved(register_set, references, operand) :
        /\ resolved.index = index
        /\ IF resolved.thrown # nullopt
           THEN BecomesThread([ThreadState EXCEPT !.thrown = resolved.thrown])
           ELSE BecomesThread(opthjoin(ThreadState, index))

OpThJoin ==
    \E operand \in IntegerOperands, index \in 0 .. MaxMessages :
        OpThJoinAt(operand, index)

\* the numbers of the messages the thread holds; the message that
\* arrived last is one of them
Arrived ==
    {message_queue[k].n : k \in 1 .. Len(message_queue)}
        \cup {register_set[k].pointer.n :
                k \in {j \in 1 .. Len(register_set) : register_set[j].pointer.type = "Integer"}}

\* another thread passes a message, an Integer numbered by arrival: it
\* is pushed onto the queue
MessageArrives ==
    /\ Runs
    /\ LET n == 1 + CHOOSE last \in Arrived : \A other \in Arrived : other <= last
        IN  /\ n <= MaxMessages
            /\ message_queue' = Append(message_queue, Integer(n))
    /\ UNCHANGED <<pc, thrown, source, target, references, modern_vars, cpu_vars,
                   register_set, threads, instruction_pointer>>

\* a spawned thread runs to its end, or dies of an exception nobody caught
ThreadStops ==
    /\ Runs
    /\ \E k \in 1 .. Len(threads), uncaught \in {nullopt, Exception("uncaught")} :
        /\ ~threads[k].stopped
        /\ threads' = [threads EXCEPT ![k].stopped = TRUE,
                                      ![k].active_exception = uncaught]
    /\ UNCHANGED <<pc, thrown, source, target, references, modern_vars, cpu_vars,
                   register_set, message_queue, instruction_pointer>>

\* register 0 holds the Integer 0, register 1 the handle of thread 1,
\* register 2 nothing, a Reference to the handle of thread 2 or, marked
\* as a reference, the object of register 0
InitThread ==
    /\ text = <<>>
    /\ InitRun
    /\ value = Zero64
    /\ is_signed = FALSE
    /\ li_parts = to_loading_parts_unsigned(Zero64)
    /\ codec = <<>>
    /\ nodes = <<>>
    /\ rodata_buf = <<>>
    /\ string_table = <<>>
    /\ symbol_table = <<>>
    /\ symbol_map = <<>>
    /\ entry_point_fn = nullopt
    /\ asm_text = <<>>
    /\ reloc_table = <<>>
    /\ diagnostic = nullopt
    /\ a_out = nullopt
    /\ exit_status = nullopt
    /\ program_header = nullopt
    /\ stack = nullopt
    /\ abort_execution = nullopt
    /\ dispatched = 0
    /\ thrown = nullopt
    /\ source = nullopt
    /\ target = <<>>
    /\ frames = <<>>
    /\ frame_new = nullptr
    /\ uregset = regset
    /\ pc = "thread"
    /\ references = <<[pointee |-> ThreadType(2), counter |-> 1]>>
    /\ threads = <<RunningThread, RunningThread>>
    /\ message_queue = <<>>
    /\ instruction_pointer = 0
    /\ \E third \in {"nothing", "Reference", "alias"} :
        register_set =
            <<RegisterOf(Integer(0), {}),
              RegisterOf(ThreadType(1), {}),
              IF third = "Reference" THEN RegisterOf(Reference(1), {})
              ELSE IF third = "alias" THEN RegisterOf(Integer(0), {REFERENCE})
              ELSE RegisterOf(null, {})>>

NextThread == OpThReceive \/ OpThJoin \/ MessageArrives \/ ThreadStops

SpecThread == InitThread /\ [][NextThread]_vars

\* the operand stands for this index, and resolving it raised nothing
ResolvesTo(operand, index) ==
    [thrown |-> nullopt, index |-> index] \in Resolved(register_set, references, operand)

\* the messages of the queue are in the order they arrived in
InArrivalOrder ==
    \A k \in 1 .. Len(message_queue) - 1 :
        message_queue[k + 1].n = message_queue[k].n + 1

\* C39: opthreceive with an empty queue changes no register and returns
\* the address of its own opcode; with a message waiting it places the
\* oldest one in the target register, removes that message and no other
\* from the queue, and returns the address after its operands. The queue
\* changes by a message arriving at its end or by such a receive only, so
\* the messages are delivered in arrival order, each once.
C39_ReceivesOldestMessage ==
    /\ [][\A operand \in IntegerOperands, index \in 0 .. MaxMessages :
            (/\ OpThReceiveAt(operand, index)
             /\ ResolvesTo(operand, index)
             /\ index < Len(register_set))
                => IF message_queue = <<>>
                   THEN /\ register_set' = register_set
                        /\ instruction_pointer' = instruction_pointer
                        /\ message_queue' = message_queue
                   ELSE /\ register_set'[index + 1].pointer = Head(message_queue)
                        /\ message_queue' = Tail(message_queue)
                        /\ instruction_pointer' = instruction_pointer + InstructionSize
                        /\ thrown' = nullopt]_vars
    /\ [][message_queue' # message_queue
            => \/ /\ OpThReceive
                  /\ message_queue' = Tail(message_queue)
                  /\ \E k \in 1 .. Len(register_set) :
                        register_set'[k].pointer = Head(message_queue)
               \/ /\ MessageArrives
                  /\ SubSeq(message_queue', 1, Len(message_queue)) = message_queue]_vars
    /\ [](pc = "thread" => InArrivalOrder)

C39_Witness ==
    /\ pc = "thread"
    /\ thrown = nullopt
    /\ instruction_pointer = 2 * InstructionSize
    /\ Len(message_queue) = 1
    /\ \E k \in 1 .. Len(register_set) : register_set[k].pointer = Integer(2)

====
